---- MODULE Spec2Model ----
(***************************************************************************)
(* Client-side replication receiving of bevy_replicon: the update/mutate   *)
(* message applier of src/src/client.rs, together with the resources it    *)
(* works on (RepliconClient, ServerEntityMap, ServerUpdateTick,            *)
(* BufferedMutations and the per-entity ConfirmHistory).                   *)
(*                                                                         *)
(* Messages are sequences of integer tokens, one token per serialized      *)
(* field (a tick takes two tokens, its high and low 16-bit halves), and    *)
(* are read through a cursor position exactly as the code reads its byte   *)
(* cursor: data_size counts tokens.                                        *)
(***************************************************************************)
EXTENDS Integers, Sequences, FiniteSets, TLC

VARIABLES
    status,               \* RepliconClient::status
    received_messages,    \* RepliconClient::received_messages, per channel
    sent_messages,        \* RepliconClient::sent_messages
    server_update_tick,   \* resource ServerUpdateTick
    entity_map,           \* resource ServerEntityMap
    buffered_mutations,   \* resource BufferedMutations
    world,                \* client entities: marker, ConfirmHistory, components
    next_entity,          \* next entity id the world hands out
    history_marker,       \* the application marks its replicated entities as history-consuming
    last_connected,       \* the Local<bool> of client_just_disconnected
    panicked,             \* the receive system has panicked (unwrap / expect)
    inserted,             \* number of messages the backend has inserted so far
    last_op,              \* history variable: the step taken last
    pre,                  \* history variable: resources before that step
    entries,              \* history variable: update entries applied by that step
    calls,                \* history variable: apply_mutations calls of that step
    arrays,               \* history variable: arrays read by that step
    buffer,               \* the server's ReplicationBuffer for this client
    confirmed,            \* a Confirmed component of one client entity
    replicated_archetypes, \* the server's ReplicatedArchetypes, with the world and rules it reads
    server,               \* the RepliconServer resource
    returned              \* history variable: what a call on the RepliconClient returned

vars == <<status, received_messages, sent_messages, server_update_tick,
          entity_map, buffered_mutations, world, next_entity, history_marker,
          last_connected, panicked, inserted, last_op, pre, entries, calls, arrays,
          buffer, confirmed, replicated_archetypes, server, returned>>

----------------------------------------------------------------------------
(* Bounds of the model.                                                    *)

\* Messages the messaging backend inserts in one run.
MaxMessages == 3

\* Calls the server makes on a buffer in one run.
MaxWrites == 4

\* Entities the client world hands out in one run.
MaxEntities == 3

\* Calls of Confirmed::set on one component in one run.
MaxSets == 3

\* Archetypes the server's world creates in one run.
MaxArchetypes == 3

\* Calls made on the RepliconServer in one run.
MaxServerCalls == 4

----------------------------------------------------------------------------
(* RepliconTick: a u32 kept as two 16-bit halves, so that wrapping         *)
(* subtraction and the wraparound-safe ordering keep their width.          *)

Half == 65536

HistoryBits == 64

Tick(hi, lo) == [hi |-> hi, lo |-> lo]

ZeroTick == Tick(0, 0)

MaxTick == Tick(Half - 1, Half - 1)

\* u32::wrapping_sub
wrapping_sub(a, b) ==
    LET borrow == IF a.lo < b.lo THEN 1 ELSE 0
    IN  Tick((a.hi - b.hi - borrow) % Half, (a.lo - b.lo) % Half)

\* a > b: the difference, read as i32, is positive.
TickGt(a, b) ==
    LET d == wrapping_sub(a, b)
    IN  d # ZeroTick /\ 2 * d.hi < Half

\* a < b: the difference, read as i32, is negative.
TickLt(a, b) == 2 * wrapping_sub(a, b).hi >= Half

\* A u32 distance compared with u64::BITS.
BelowBits(d) == d.hi = 0 /\ d.lo < HistoryBits

----------------------------------------------------------------------------
(* ConfirmHistory: last_tick and a 64-bit mask, kept as the set of its set *)
(* bit positions (bit i stands for tick last_tick - i).                    *)

ConfirmHistory_new(tick) == [last_tick |-> tick, mask |-> {0}]

\* mask << diff on a u64; a shift of 64 or more leaves no bit.
ShiftLeft(mask, diff) ==
    IF BelowBits(diff)
    THEN {i + diff.lo : i \in {j \in mask : j + diff.lo < HistoryBits}}
    ELSE {}

set_last_tick(history, tick) ==
    IF TickGt(tick, history.last_tick)
    THEN [last_tick |-> tick,
          mask |-> ShiftLeft(history.mask, wrapping_sub(tick, history.last_tick)) \cup {0}]
    ELSE history

ConfirmHistory_set(history, ago) == [history EXCEPT !.mask = @ \cup {ago}]

ConfirmHistory_get(history, tick) ==
    IF TickGt(tick, history.last_tick)
    THEN FALSE
    ELSE LET ago == wrapping_sub(history.last_tick, tick)
         IN  ~BelowBits(ago) \/ ago.lo \in history.mask

----------------------------------------------------------------------------
(* Confirmed (src/src/client/confirmed.rs): last_tick and a u64 mask, kept *)
(* as the set of its set bit positions.                                    *)

Confirmed_new(last_tick) == [mask |-> {0}, last_tick |-> last_tick]

Confirmed_get(component, tick) ==
    IF TickGt(tick, component.last_tick)
    THEN FALSE
    ELSE LET ago == wrapping_sub(component.last_tick, tick)
         IN  ~BelowBits(ago) \/ ago.lo \in component.mask

wrapping_shl_none(mask, diff) == mask

\* u64::wrapping_shl: the shift amount is taken modulo 64.
wrapping_shl(mask, diff) ==
    LET n == diff.lo % HistoryBits
    IN  {i + n : i \in {j \in mask : j + n < HistoryBits}}

resize_to_reset(component, tick) == [mask |-> {}, last_tick |-> tick]

resize_to(component, tick) ==
    [mask |-> wrapping_shl(component.mask, wrapping_sub(tick, component.last_tick)),
     last_tick |-> tick]

shl_one_newest(ago, overflow_checks) == [panic |-> FALSE, bits |-> {0}]

\* 1 << ago on a u64: a shift of 64 or more panics in a build with overflow
\* checks and is taken modulo 64 in a build without them.
shl_one(ago, overflow_checks) ==
    IF BelowBits(ago)
    THEN [panic |-> FALSE, bits |-> {ago.lo}]
    ELSE IF overflow_checks
         THEN [panic |-> TRUE, bits |-> {}]
         ELSE [panic |-> FALSE, bits |-> {ago.lo % HistoryBits}]

Confirmed_set_resizing(component, tick, overflow_checks) ==
    [component |-> IF TickGt(tick, component.last_tick)
                   THEN [mask |-> {i + 1 : i \in {j \in component.mask : j + 1 < HistoryBits}},
                         last_tick |-> tick]
                   ELSE component,
     new |-> TickGt(tick, component.last_tick),
     panic |-> FALSE]

\* Confirmed::set: the component it leaves, what it returns, and whether it
\* panicked.
Confirmed_set(component, tick, overflow_checks) ==
    LET new == TickGt(tick, component.last_tick)
        resized == IF new THEN resize_to(component, tick) ELSE component
        one == shl_one(wrapping_sub(resized.last_tick, tick), overflow_checks)
    IN  [component |-> [resized EXCEPT !.mask = @ \cup one.bits],
         new |-> new,
         panic |-> one.panic]

\* A component as new leaves it, with what has been done to it: the ticks
\* confirmed so far and the last call of set.
Confirmed_created(last_tick) ==
    [component |-> Confirmed_new(last_tick), ticks |-> {last_tick}, panic |-> FALSE,
     calls |-> 0, set |-> <<>>]

\* The component after one call of set.
Confirmed_after(c, tick, overflow_checks) ==
    LET r == Confirmed_set(c.component, tick, overflow_checks)
    IN  [component |-> r.component,
         ticks |-> IF r.panic THEN c.ticks ELSE c.ticks \cup {tick},
         panic |-> r.panic,
         calls |-> c.calls + 1,
         set |-> <<[tick |-> tick, new |-> r.new, before |-> c.component]>>]

Confirmed_start == Confirmed_created(ZeroTick)

----------------------------------------------------------------------------
(* ServerEntityMap: server_to_client and client_to_server.                 *)

EmptyMap == [server_to_client |-> <<>>, client_to_server |-> <<>>]

\* Finite maps, built with the TLC module's :> and @@.
Put(f, k, v) == (k :> v) @@ f

Drop(f, k) == [x \in DOMAIN f \ {k} |-> f[x]] @@ <<>>

ServerEntityMap_insert(map, server_entity, client_entity) ==
    [server_to_client |-> Put(map.server_to_client, server_entity, client_entity),
     client_to_server |-> Put(map.client_to_server, client_entity, server_entity)]

remove_by_server(map, server_entity) ==
    IF server_entity \in DOMAIN map.server_to_client
    THEN [server_to_client |-> Drop(map.server_to_client, server_entity),
          client_to_server |-> Drop(map.client_to_server,
                                    map.server_to_client[server_entity])]
    ELSE map

----------------------------------------------------------------------------
(* The replication registry and the update message flags.                  *)

\* Registered components in registration order; a FnsId is an index into it.
\* "plain" holds a value, "entity" holds an entity and maps it when written.
Registry == <<"plain", "entity">>

FnsIdOf(kind) == CHOOSE i \in DOMAIN Registry : Registry[i] = kind

\* Components the history-consuming marker registers command functions for.
MarkerFns == {FnsIdOf("plain")}

\* UpdateMessageFlags in bit order.
FlagNames == <<"MAPPINGS", "DESPAWNS", "REMOVALS", "CHANGES">>

FlagBit(i) == 2 ^ (i - 1)

HasFlag(flags, i) == (flags \div FlagBit(i)) % 2 = 1

\* UpdateMessageFlags::last: the highest set flag.
LastFlag(flags) ==
    CHOOSE i \in DOMAIN FlagNames :
        HasFlag(flags, i) /\ \A j \in DOMAIN FlagNames : HasFlag(flags, j) => j <= i

----------------------------------------------------------------------------
(* The state a receive pass works on: the resources it borrows, the cursor *)
(* of the message being read, and how the pass has gone so far.            *)

Pass(tick, map, w, next, marker) ==
    [tick |-> tick, map |-> map, world |-> w, next |-> next, marker |-> marker,
     pos |-> 0, err |-> FALSE, panic |-> FALSE, entries |-> <<>>, calls |-> <<>>,
     arrays |-> <<>>, debug_assertions |-> FALSE]

Ok(st) == ~st.err /\ ~st.panic

\* A read past the end of the message: bincode / varint error.
Fail(st) == [st EXCEPT !.err = TRUE]

\* An expect or an access to a despawned entity.
Panic(st) == [st EXCEPT !.panic = TRUE]

Avail(msg, st, n) == st.pos + n <= Len(msg)

Token(msg, st, i) == msg[st.pos + i]

Advance(st, n) == [st EXCEPT !.pos = @ + n]

\* world.spawn(Replicated); the application's hook on Replicated adds its
\* marker, if it uses one.
Spawned(marker) ==
    [replicated |-> TRUE, history |-> <<>>, marker |-> marker, comps |-> <<>>]

always_insert(st, server_entity) ==
    [st EXCEPT !.world = Put(st.world, st.next, Spawned(st.marker)),
               !.next = st.next + 1,
               !.map = ServerEntityMap_insert(st.map, server_entity, st.next)]

\* ServerEntityMap::get_by_server_or_insert with the closure spawning an
\* entity with Replicated.
get_by_server_or_insert(st, server_entity) ==
    IF server_entity \in DOMAIN st.map.server_to_client
    THEN st
    ELSE [st EXCEPT !.world = Put(st.world, st.next, Spawned(st.marker)),
                    !.next = st.next + 1,
                    !.map = ServerEntityMap_insert(st.map, server_entity, st.next)]

map_entity_always(st, ignore_mapping, entity) ==
    LET s1 == get_by_server_or_insert(st, entity)
    IN  [st |-> s1, entity |-> s1.map.server_to_client[entity]]

\* WriteCtx::map_entity
map_entity(st, ignore_mapping, entity) ==
    IF ignore_mapping
    THEN [st |-> st, entity |-> entity]
    ELSE LET s1 == get_by_server_or_insert(st, entity)
         IN  [st |-> s1, entity |-> s1.map.server_to_client[entity]]

\* component_fns.write with the default functions: deserialize the value,
\* map its entities, put it on the entity.
write(st, msg, client_entity, fns_id) ==
    IF fns_id \notin DOMAIN Registry \/ ~Avail(msg, st, 1)
    THEN Fail(st)
    ELSE LET value == Token(msg, st, 1)
             m == IF Registry[fns_id] = "entity"
                  THEN map_entity(Advance(st, 1), FALSE, value)
                  ELSE [st |-> Advance(st, 1), entity |-> value]
         IN  [m.st EXCEPT !.world[client_entity].comps =
                           Put(m.st.world[client_entity].comps, fns_id, m.entity)]

\* component_fns.consume_or_write: written through the marker's functions
\* when the marker has some for the component; otherwise the value is
\* deserialized with ignore_mapping set and dropped.
consume_or_write(st, msg, client_entity, fns_id) ==
    IF fns_id \in MarkerFns
    THEN write(st, msg, client_entity, fns_id)
    ELSE IF ~Avail(msg, st, 1)
         THEN Fail(st)
         ELSE IF fns_id \in DOMAIN Registry /\ Registry[fns_id] = "entity"
              THEN map_entity(Advance(st, 1), TRUE, Token(msg, st, 1)).st
              ELSE Advance(st, 1)

\* component_fns.remove with the default function.
remove(st, client_entity, fns_id) ==
    [st EXCEPT !.world[client_entity].comps =
                   Drop(st.world[client_entity].comps, fns_id)]

confirm_tick(st, client_entity, tick) ==
    LET history == st.world[client_entity].history
    IN  IF history # <<>>
        THEN [st EXCEPT !.world[client_entity].history = <<set_last_tick(history[1], tick)>>]
        ELSE [st EXCEPT !.world[client_entity].history = <<ConfirmHistory_new(tick)>>]

\* History variable: an entry of an update message that has been applied,
\* with the state it found (st0) and the state it left (st).
Entry(st0, msg, st, flag, server_entity, tick) ==
    LET known == server_entity \in DOMAIN st0.map.server_to_client
        mapped == server_entity \in DOMAIN st.map.server_to_client
        client_entity == IF mapped THEN st.map.server_to_client[server_entity]
                         ELSE IF known THEN st0.map.server_to_client[server_entity]
                         ELSE 0
    IN  [st EXCEPT !.entries = Append(st.entries,
            [flag |-> flag, server_entity |-> server_entity, tick |-> tick,
             history |-> IF mapped /\ client_entity \in DOMAIN st.world
                         THEN st.world[client_entity].history ELSE <<>>,
             known |-> known, client_entity |-> client_entity, ok |-> Ok(st),
             data |-> SubSeq(msg, st0.pos + 1, IF Ok(st) THEN st.pos ELSE Len(msg)),
             before |-> [world |-> st0.world, map |-> st0.map, next |-> st0.next],
             after |-> [world |-> st.world, map |-> st.map, next |-> st.next]])]

----------------------------------------------------------------------------
(* Update messages: src/src/client.rs, apply_update_message and the        *)
(* functions applying one element of each array.                           *)

get_entity_mut_always(st, entity) == TRUE

\* world.get_entity_mut(entity) is Ok: the entity exists.
get_entity_mut(st, entity) == entity \in DOMAIN st.world

apply_entity_mapping_unmarked(st, msg) ==
    IF ~Avail(msg, st, 2)
    THEN Fail(st)
    ELSE LET server_entity == Token(msg, st, 1)
             client_entity == Token(msg, st, 2)
             s1 == Advance(st, 2)
         IN  Entry(st, msg,
                   IF client_entity \in DOMAIN s1.world
                   THEN [s1 EXCEPT !.map = ServerEntityMap_insert(s1.map, server_entity,
                                                                  client_entity)]
                   ELSE s1,
                   "MAPPINGS", server_entity, st.tick)

apply_entity_mapping(st, msg) ==
    IF ~Avail(msg, st, 2)
    THEN Fail(st)
    ELSE LET server_entity == Token(msg, st, 1)
             client_entity == Token(msg, st, 2)
             s1 == Advance(st, 2)
         IN  Entry(st, msg,
                   IF get_entity_mut(s1, client_entity)
                   THEN [s1 EXCEPT !.world[client_entity].replicated = TRUE,
                                   !.world[client_entity].marker = s1.marker,
                                   !.map = ServerEntityMap_insert(s1.map, server_entity,
                                                                  client_entity)]
                   ELSE s1,
                   "MAPPINGS", server_entity, st.tick)

apply_despawn_keeping_pair(st, msg, message_tick) ==
    IF ~Avail(msg, st, 1)
    THEN Fail(st)
    ELSE LET server_entity == Token(msg, st, 1)
             s1 == Advance(st, 1)
             s2c == s1.map.server_to_client
         IN  IF server_entity \in DOMAIN s2c
             THEN Entry(st, msg, [s1 EXCEPT !.world = Drop(s1.world, s2c[server_entity])],
                        "DESPAWNS", server_entity, message_tick)
             ELSE Entry(st, msg, s1, "DESPAWNS", server_entity, message_tick)

\* The registered despawn function is the default one: it despawns the entity.
apply_despawn(st, msg, message_tick) ==
    IF ~Avail(msg, st, 1)
    THEN Fail(st)
    ELSE LET server_entity == Token(msg, st, 1)
             s1 == Advance(st, 1)
             s2c == s1.map.server_to_client
         IN  IF server_entity \in DOMAIN s2c
             THEN Entry(st, msg, [s1 EXCEPT !.map = remove_by_server(s1.map, server_entity),
                                            !.world = Drop(s1.world, s2c[server_entity])],
                        "DESPAWNS", server_entity, message_tick)
             ELSE Entry(st, msg, s1, "DESPAWNS", server_entity, message_tick)

remove_components_unlisted(st, msg, client_entity, len) ==
    IF ~Avail(msg, st, len)
    THEN Fail(st)
    ELSE [Advance(st, len) EXCEPT !.world[client_entity].comps = <<>>]

RECURSIVE remove_components(_, _, _, _)
remove_components(st, msg, client_entity, len) ==
    IF len = 0 \/ ~Ok(st)
    THEN st
    ELSE IF ~Avail(msg, st, 1)
         THEN Fail(st)
         ELSE remove_components(
                  remove(Advance(st, 1), client_entity, Token(msg, st, 1)),
                  msg, client_entity, len - 1)

RECURSIVE write_components(_, _, _, _)
write_components(st, msg, client_entity, len) ==
    IF len = 0 \/ ~Ok(st)
    THEN st
    ELSE IF ~Avail(msg, st, 1)
         THEN Fail(st)
         ELSE write_components(
                  write(Advance(st, 1), msg, client_entity, Token(msg, st, 1)),
                  msg, client_entity, len - 1)

apply_removals(st, msg, message_tick) ==
    IF ~Avail(msg, st, 1)
    THEN Fail(st)
    ELSE LET server_entity == Token(msg, st, 1)
             s1 == get_by_server_or_insert(Advance(st, 1), server_entity)
             client_entity == s1.map.server_to_client[server_entity]
         IN  Entry(st, msg,
                   IF client_entity \notin DOMAIN s1.world
                   THEN Panic(s1)
                   ELSE LET s2 == confirm_tick(s1, client_entity, message_tick)
                        IN  IF ~Avail(msg, s2, 1)
                            THEN Fail(s2)
                            ELSE remove_components(Advance(s2, 1), msg, client_entity,
                                              Token(msg, s2, 1)),
                   "REMOVALS", server_entity, message_tick)

apply_changes(st, msg, message_tick) ==
    IF ~Avail(msg, st, 1)
    THEN Fail(st)
    ELSE LET server_entity == Token(msg, st, 1)
             s1 == get_by_server_or_insert(Advance(st, 1), server_entity)
             client_entity == s1.map.server_to_client[server_entity]
         IN  Entry(st, msg,
                   IF client_entity \notin DOMAIN s1.world
                   THEN Panic(s1)
                   ELSE LET s2 == confirm_tick(s1, client_entity, message_tick)
                        IN  IF ~Avail(msg, s2, 1)
                            THEN Fail(s2)
                            ELSE write_components(Advance(s2, 1), msg, client_entity,
                                             Token(msg, s2, 1)),
                   "CHANGES", server_entity, message_tick)

----------------------------------------------------------------------------
(* Mutations of one entity: src/src/client.rs, apply_mutations.            *)

\* History variable: what one apply_mutations call found and did.
Call(st0, st1, msg, tick, entity, size, outcome) ==
    LET entry == [message_tick |-> tick, server_entity |-> entity,
                  data_size |-> size, outcome |-> outcome,
                  pos |-> st0.pos + 2, next_pos |-> st1.pos, len |-> Len(msg),
                  data |-> SubSeq(msg, st0.pos + 3,
                                  IF st0.pos + 2 + size <= Len(msg)
                                  THEN st0.pos + 2 + size ELSE Len(msg)),
                  ok |-> Ok(st1),
                  before |-> [world |-> st0.world, map |-> st0.map],
                  after |-> [world |-> st1.world, map |-> st1.map]]
    IN  [tick |-> st1.tick, map |-> st1.map, world |-> st1.world, next |-> st1.next,
         marker |-> st1.marker, pos |-> st1.pos, err |-> st1.err, panic |-> st1.panic,
         entries |-> st1.entries, calls |-> Append(st1.calls, entry),
         arrays |-> st1.arrays, debug_assertions |-> st1.debug_assertions]

RECURSIVE mutate_components(_, _, _, _, _)
mutate_components(st, msg, client_entity, end_pos, is_new) ==
    IF st.pos >= end_pos \/ ~Ok(st)
    THEN st
    ELSE IF ~Avail(msg, st, 1)
         THEN Fail(st)
         ELSE LET fns_id == Token(msg, st, 1)
                  s1 == Advance(st, 1)
              IN  mutate_components(
                      IF is_new
                      THEN write(s1, msg, client_entity, fns_id)
                      ELSE consume_or_write(s1, msg, client_entity, fns_id),
                      msg, client_entity, end_pos, is_new)

skip_nothing(st, data_size) == st

\* The cursor moves past the entity's data without reading it.
skip_data(st, data_size) == Advance(st, data_size)

\* message_tick > history.last_tick()
new_tick(message_tick, history) == TickGt(message_tick, history.last_tick)

need_history_always(entity) == TRUE

\* entity_markers.need_history(): the entity carries a history-consuming marker.
need_history(entity) == entity.marker

too_old_above_bits(ago) == ago.hi # 0 \/ ago.lo > HistoryBits

\* ago >= u64::BITS
too_old(ago) == ~BelowBits(ago)

apply_mutations(st, msg, message_tick) ==
    IF ~Avail(msg, st, 2)
    THEN Fail(st)
    ELSE
    LET server_entity == Token(msg, st, 1)
        data_size == Token(msg, st, 2)
        s1 == Advance(st, 2)
        Done(result, outcome) ==
            Call(st, result, msg, message_tick, server_entity, data_size, outcome)
    IN  IF server_entity \notin DOMAIN s1.map.server_to_client
        THEN Done(skip_data(s1, data_size), "unknown")
        ELSE
        LET client_entity == s1.map.server_to_client[server_entity]
        IN  IF client_entity \notin DOMAIN s1.world
            THEN Done(Panic(s1), "panic")
            ELSE
            LET entity == s1.world[client_entity]
            IN  IF entity.history = <<>>
                THEN Done(Panic(s1), "panic")
                ELSE
                LET history == entity.history[1]
                    ago == wrapping_sub(history.last_tick, message_tick)
                    end_pos == s1.pos + data_size
                IN  IF new_tick(message_tick, history)
                    THEN Done(mutate_components(
                                  [s1 EXCEPT !.world[client_entity].history =
                                       <<set_last_tick(history, message_tick)>>],
                                  msg, client_entity, end_pos, TRUE),
                              "new")
                    ELSE IF ~need_history(entity)
                    THEN Done(skip_data(s1, data_size), "outdated")
                    ELSE IF too_old(ago)
                    THEN Done(skip_data(s1, data_size), "discarded")
                    ELSE Done(mutate_components(
                                  [s1 EXCEPT !.world[client_entity].history =
                                       <<ConfirmHistory_set(history, ago.lo)>>],
                                  msg, client_entity, end_pos, FALSE),
                              "history")

----------------------------------------------------------------------------
(* Arrays: src/src/client.rs, apply_array, with the element function       *)
(* chosen by the flag of the array.                                        *)

apply_element(flag, st, msg, message_tick) ==
    CASE flag = "MAPPINGS" -> apply_entity_mapping(st, msg)
      [] flag = "DESPAWNS" -> apply_despawn(st, msg, message_tick)
      [] flag = "REMOVALS" -> apply_removals(st, msg, message_tick)
      [] flag = "CHANGES" -> apply_changes(st, msg, message_tick)
      [] flag = "MUTATIONS" -> apply_mutations(st, msg, message_tick)

RECURSIVE apply_sized(_, _, _, _, _)
apply_sized(flag, st, msg, message_tick, len) ==
    IF len = 0 \/ ~Ok(st)
    THEN st
    ELSE apply_sized(flag, apply_element(flag, st, msg, message_tick),
                     msg, message_tick, len - 1)

RECURSIVE apply_dynamic(_, _, _, _)
apply_dynamic(flag, st, msg, message_tick) ==
    IF st.pos >= Len(msg) \/ ~Ok(st)
    THEN st
    ELSE apply_dynamic(flag, apply_element(flag, st, msg, message_tick),
                       msg, message_tick)

\* The array that is about to be read, for the history of the pass.
ArrayRead(st, msg, flag, kind) ==
    [st EXCEPT !.arrays = Append(@, [flag |-> flag, kind |-> kind, message |-> msg,
                                     pos |-> st.pos])]

read_array(kind, flag, st, msg, message_tick) ==
    IF kind = "Sized"
    THEN IF ~Avail(msg, st, 1)
         THEN Fail(st)
         ELSE apply_sized(flag, Advance(st, 1), msg, message_tick, Token(msg, st, 1))
    ELSE apply_dynamic(flag, st, msg, message_tick)

apply_array(kind, flag, st, msg, message_tick) ==
    read_array(kind, flag, ArrayRead(st, msg, flag, kind), msg, message_tick)

array_kind_sized(flag, last_flag) == "Sized"

\* The framing of the array of a flag: dynamic for the last set flag.
array_kind(flag, last_flag) == IF flag # last_flag THEN "Sized" ELSE "Dynamic"

\* debug_assert_eq!(array_kind, ..): MAPPINGS is never the last array, and
\* CHANGES always is.
debug_assert_eq(st, flag, kind) ==
    st.debug_assertions
        /\ \/ (flag = "MAPPINGS" /\ kind # "Sized")
           \/ (flag = "CHANGES" /\ kind # "Dynamic")

\* The array of one set flag.
apply_flag(st, msg, message_tick, flag, kind) ==
    IF debug_assert_eq(st, flag, kind)
    THEN Panic(st)
    ELSE apply_array(kind, flag, st, msg, message_tick)

RECURSIVE apply_flags(_, _, _, _, _)
apply_flags(st, msg, message_tick, flags, i) ==
    IF i > Len(FlagNames) \/ ~Ok(st)
    THEN st
    ELSE IF ~HasFlag(flags, i)
         THEN apply_flags(st, msg, message_tick, flags, i + 1)
         ELSE apply_flags(
                  apply_flag(st, msg, message_tick, FlagNames[i],
                             array_kind(i, LastFlag(flags))),
                  msg, message_tick, flags, i + 1)

\* The tick of an update message becomes ServerUpdateTick.
assign_update_tick(tick, message_tick) == message_tick

apply_update_message(st, msg) ==
    IF Len(msg) < 3
    THEN Fail(st)
    ELSE LET flags == msg[1]
             message_tick == Tick(msg[2], msg[3])
         IN  IF st.debug_assertions /\ flags = 0
             THEN Panic(Advance(st, 1))
             ELSE apply_flags([st EXCEPT !.tick = assign_update_tick(st.tick,
                                                                     message_tick),
                                         !.pos = 3],
                              msg, message_tick, flags, 1)

----------------------------------------------------------------------------
(* Mutate messages: buffering and the drain of BufferedMutations.          *)

RECURSIVE partition_point_ascending(_, _, _)
partition_point_ascending(list, message_tick, i) ==
    IF i <= Len(list) /\ TickGt(message_tick, list[i].message_tick)
    THEN partition_point_ascending(list, message_tick, i + 1)
    ELSE i - 1

\* partition_point over a list sorted by message_tick in descending order.
RECURSIVE partition_point(_, _, _)
partition_point(list, message_tick, i) ==
    IF i <= Len(list) /\ TickLt(message_tick, list[i].message_tick)
    THEN partition_point(list, message_tick, i + 1)
    ELSE i - 1

BufferedMutations_push(list, mutation) == Append(list, mutation)

\* BufferedMutations::insert
BufferedMutations_insert(list, mutation) ==
    LET index == partition_point(list, mutation.message_tick, 1)
    IN  SubSeq(list, 1, index) \o <<mutation>> \o SubSeq(list, index + 1, Len(list))

\* TrackMutateMessages is off: no ServerMutateTicks resource, and the header
\* carries no messages_count.
buffer_mutate_message(buffered, message) ==
    IF Len(message) < 5
    THEN [err |-> TRUE, buffered |-> buffered, mutate_index |-> 0]
    ELSE [err |-> FALSE,
          buffered |-> BufferedMutations_insert(buffered,
              [update_tick |-> Tick(message[1], message[2]),
               message_tick |-> Tick(message[3], message[4]),
               messages_count |-> 1,
               message |-> SubSeq(message, 6, Len(message))]),
          mutate_index |-> message[5]]

keep_buffered_until_newer(mutate, update_tick) ==
    ~TickLt(mutate.update_tick, update_tick)

\* The retain closure keeps a message whose update tick has not arrived.
keep_buffered(mutate, update_tick) == TickGt(mutate.update_tick, update_tick)

applied_mutate_ending(r, out) ==
    [st |-> [r EXCEPT !.err = FALSE, !.panic = @ \/ r.err],
     out |-> [out EXCEPT !.err = @ \/ r.err]]

\* r: the pass state after one buffered message has been applied. Its error,
\* if any, is kept for the end of the drain.
applied_mutate(r, out) ==
    [st |-> [r EXCEPT !.err = FALSE], out |-> [out EXCEPT !.err = @ \/ r.err]]

RECURSIVE apply_mutate_messages(_, _, _, _, _)
RECURSIVE retain_rest(_, _, _, _)
retain_rest(a, buffered, update_tick, i) ==
    apply_mutate_messages(a.st, buffered, update_tick, i, a.out)

apply_mutate_messages(st, buffered, update_tick, i, out) ==
    IF i > Len(buffered) \/ st.panic
    THEN [st |-> st, buffered |-> out.kept \o SubSeq(buffered, i, Len(buffered)),
          err |-> out.err]
    ELSE IF keep_buffered(buffered[i], update_tick)
         THEN apply_mutate_messages(st, buffered, update_tick, i + 1,
                  [out EXCEPT !.kept = Append(@, buffered[i])])
         ELSE retain_rest(
                  applied_mutate(
                      apply_array("Dynamic", "MUTATIONS",
                                  [st EXCEPT !.pos = 0, !.err = FALSE],
                                  buffered[i].message, buffered[i].message_tick),
                      out),
                  buffered, update_tick, i + 1)

----------------------------------------------------------------------------
(* One receive pass: src/src/client.rs, apply_replication.                 *)

RECURSIVE apply_update_messages(_, _, _)
apply_update_messages(st, messages, i) ==
    IF i > Len(messages) \/ ~Ok(st)
    THEN st
    ELSE apply_update_messages(
             apply_update_message([st EXCEPT !.pos = 0], messages[i]),
             messages, i + 1)

RECURSIVE buffer_mutate_messages(_, _, _, _)
buffer_mutate_messages(buffered, messages, i, acks) ==
    IF i > Len(messages)
    THEN [err |-> FALSE, buffered |-> buffered, acks |-> acks]
    ELSE LET r == buffer_mutate_message(buffered, messages[i])
         IN  IF r.err
             THEN [err |-> TRUE, buffered |-> r.buffered, acks |-> acks]
             ELSE buffer_mutate_messages(r.buffered, messages, i + 1,
                                         Append(acks, r.mutate_index))

send_acks_always(received_count, acks) == <<<<"Updates", acks>>>>

\* The acknowledgment messages the pass sends: one when mutate messages were
\* received, none otherwise.
send_acks(received_count, acks) ==
    IF received_count # 0 THEN <<<<"Updates", acks>>>> ELSE <<>>

drain_tick_default(st) == ZeroTick

\* The tick the drain compares against: ServerUpdateTick after the updates.
drain_tick(st) == st.tick

\* What the pass leaves behind once the buffer has been drained.
drained(b, d, mutations) ==
    [st |-> d.st, buffered |-> d.buffered,
     sent |-> send_acks(Len(mutations), b.acks),
     mutations |-> <<>>, failed |-> d.err \/ d.st.panic]

\* The received mutate messages are buffered and acknowledged, then the
\* buffer is drained.
buffer_and_drain(s1, b, mutations) ==
    IF b.err
    THEN [st |-> s1, buffered |-> b.buffered, sent |-> <<>>,
          mutations |-> <<>>, failed |-> TRUE]
    ELSE drained(b, apply_mutate_messages(s1, b.buffered, drain_tick(s1), 1,
                                          [kept |-> <<>>, err |-> FALSE]),
                 mutations)

\* s1: the pass state after the update messages.
after_updates(s1, buffered, mutations) ==
    IF ~Ok(s1)
    THEN [st |-> s1, buffered |-> buffered, sent |-> <<>>,
          mutations |-> mutations, failed |-> TRUE]
    ELSE buffer_and_drain(s1, buffer_mutate_messages(buffered, mutations, 1, <<>>),
                          mutations)

apply_replication(st, buffered, updates, mutations) ==
    after_updates(apply_update_messages(st, updates, 1), buffered, mutations)

----------------------------------------------------------------------------
(* The wire format the server writes: spec section 4.8.                    *)

RECURSIVE Concat(_)
Concat(seqs) == IF seqs = <<>> THEN <<>> ELSE Head(seqs) \o Concat(Tail(seqs))

MappingEntry(server_entity, client_entity) == <<server_entity, client_entity>>

DespawnEntry(server_entity) == <<server_entity>>

RemovalEntry(server_entity, fns_ids) == <<server_entity, Len(fns_ids)>> \o fns_ids

\* components: a sequence of <<fns_id, value>>
ChangeEntry(server_entity, components) ==
    <<server_entity, Len(components)>> \o Concat(components)

MutationEntry(server_entity, components) ==
    <<server_entity, 2 * Len(components)>> \o Concat(components)

UpdateMessage(tick, mappings, despawns, removals, changes) ==
    LET parts == <<mappings, despawns, removals, changes>>
        set == {i \in 1..4 : parts[i] # <<>>}
        flags == (IF 1 \in set THEN FlagBit(1) ELSE 0) + (IF 2 \in set THEN FlagBit(2) ELSE 0)
                 + (IF 3 \in set THEN FlagBit(3) ELSE 0) + (IF 4 \in set THEN FlagBit(4) ELSE 0)
        Array(i) == IF i \notin set THEN <<>>
                    ELSE IF \E j \in set : j > i
                         THEN <<Len(parts[i])>> \o Concat(parts[i])
                         ELSE Concat(parts[i])
    IN  <<flags, tick.hi, tick.lo>> \o Array(1) \o Array(2) \o Array(3) \o Array(4)

MutateMessage(update_tick, message_tick, mutate_index, mutations) ==
    <<update_tick.hi, update_tick.lo, message_tick.hi, message_tick.lo, mutate_index>>
    \o Concat(mutations)

\* The value a plain component has on the server at a tick, as an update
\* message and as a mutate message carry it.
UpdateValue(tick) == tick.lo

MutateValue(tick) == Half + tick.lo

Plain(value) == <<FnsIdOf("plain"), value>>

Reference(server_entity) == <<FnsIdOf("entity"), server_entity>>

----------------------------------------------------------------------------
(* The messages the backend hands in. Server entities are 1 and 2; the     *)
(* ticks lie on both sides of the wraparound (MaxTick, 1) and of the       *)
(* 64-tick history window (65 - 2 = 63, 65 - 1 = 64).                      *)

Changes(tick, server_entities) ==
    UpdateMessage(tick, <<>>, <<>>, <<>>,
        [i \in 1..Len(server_entities) |->
            ChangeEntry(server_entities[i], <<Plain(UpdateValue(tick))>>)])

Despawns(tick, server_entity) ==
    UpdateMessage(tick, <<>>, <<DespawnEntry(server_entity)>>, <<>>, <<>>)

Removals(tick, server_entity) ==
    UpdateMessage(tick, <<>>, <<>>,
                  <<RemovalEntry(server_entity, <<FnsIdOf("plain")>>)>>, <<>>)

Mappings(tick, server_entity, client_entity) ==
    UpdateMessage(tick, <<MappingEntry(server_entity, client_entity)>>, <<>>, <<>>, <<>>)

\* The server honours the client's pre-spawned entity and sends its data.
MappedChanges(tick, server_entity, client_entity) ==
    UpdateMessage(tick, <<MappingEntry(server_entity, client_entity)>>, <<>>, <<>>,
                  <<ChangeEntry(server_entity, <<Plain(UpdateValue(tick))>>)>>)

References(tick, server_entity, target) ==
    UpdateMessage(tick, <<>>, <<>>, <<>>,
                  <<ChangeEntry(server_entity, <<Reference(target)>>)>>)

\* The server despawned target in the tick in which a component of
\* server_entity that refers to it changed.
DanglingReference(tick, server_entity, target) ==
    UpdateMessage(tick, <<>>, <<DespawnEntry(target)>>, <<>>,
                  <<ChangeEntry(server_entity, <<Reference(target)>>)>>)

\* An update message with all four arrays: server_entity is mapped to the
\* client's entity and changed, one component of other is removed, gone is
\* despawned.
AllArrays(tick, server_entity, client_entity, other, gone) ==
    UpdateMessage(tick, <<MappingEntry(server_entity, client_entity)>>,
                  <<DespawnEntry(gone)>>,
                  <<RemovalEntry(other, <<FnsIdOf("plain")>>)>>,
                  <<ChangeEntry(server_entity, <<Plain(UpdateValue(tick))>>)>>)

\* The first mutate message of a tick: it mutates entity 1.
MutateA(update_tick, message_tick) ==
    MutateMessage(update_tick, message_tick, 0,
                  <<MutationEntry(1, <<Plain(MutateValue(message_tick))>>)>>)

\* The second mutate message of a tick: it mutates entities 1 and 2.
MutateB(update_tick, message_tick) ==
    MutateMessage(update_tick, message_tick, 1,
                  <<MutationEntry(1, <<Plain(MutateValue(message_tick)), Reference(2)>>),
                    MutationEntry(2, <<Plain(MutateValue(message_tick))>>)>>)

\* A mutate message cut off behind the entity of its first mutation.
MutateTruncated(update_tick, message_tick) ==
    MutateMessage(update_tick, message_tick, 2, <<<<1>>>>)

\* Receiving within one session.
UpdateInputs ==
    {Changes(Tick(0, 1), <<1, 2>>), Changes(Tick(0, 2), <<1>>),
     Despawns(Tick(0, 2), 1), Removals(Tick(0, 2), 1)}

MutateInputs ==
    {MutateA(MaxTick, MaxTick), MutateA(Tick(0, 1), Tick(0, 2)),
     MutateA(Tick(0, 1), Tick(0, 65)), MutateA(Tick(0, 2), Tick(0, 3)),
     MutateB(Tick(0, 1), Tick(0, 1)), MutateB(Tick(0, 1), Tick(0, 2)),
     MutateTruncated(MaxTick, Tick(0, 1))}

\* Entities that enter the map without an update message of their own.
MappingUpdates ==
    {Changes(Tick(0, 1), <<1>>), Mappings(Tick(0, 1), 2, 1),
     MappedChanges(Tick(0, 1), 2, 1),
     References(Tick(0, 1), 1, 2), DanglingReference(Tick(0, 2), 1, 2),
     Despawns(Tick(0, 2), 1), Despawns(Tick(0, 2), 2),
     AllArrays(Tick(0, 2), 2, 1, 1, 3)}

MappingMutates == {MutateB(Tick(0, 1), Tick(0, 2)), MutateA(Tick(0, 1), Tick(0, 2))}

\* Sessions: connecting, disconnecting, resetting.
SessionUpdates == {Changes(Tick(0, 1), <<1, 2>>), Changes(Tick(0, 2), <<1>>)}

SessionMutates == {MutateA(Tick(0, 1), Tick(0, 2)), MutateA(Tick(0, 2), Tick(0, 2))}

----------------------------------------------------------------------------
(* The server's buffer writer: src/src/server/replication_buffer.rs. The   *)
(* message is a sequence of bytes under a cursor; an entity is a pair of   *)
(* u32 kept, as ticks are, in 16-bit halves.                               *)

\* u8::MAX, of entity_data_len.
U8Max == 255

\* u16::MAX, of array_len.
U16Max == 65535

U32(hi, lo) == [hi |-> hi, lo |-> lo]

Entity(index, generation) == [index |-> index, generation |-> generation]

\* write_u64_varint and write_u32_varint: seven bits a byte, least
\* significant first, the high bit set on every byte but the last.
RECURSIVE write_varint(_)
write_varint(value) ==
    IF value.hi = 0 /\ value.lo < 128
    THEN <<value.lo>>
    ELSE <<128 + (value.lo % 128)>>
             \o write_varint(U32(value.hi \div 128,
                                 ((value.hi % 128) * 512) + (value.lo \div 128)))

\* Reads a varint of at most ten bytes; n bytes of it have been read.
RECURSIVE read_varint(_, _, _)
read_varint(message, pos, n) ==
    LET Join(byte, rest) ==
            [value |-> U32((rest.value.hi * 128) + ((rest.value.lo * 128 + byte) \div Half),
                           (rest.value.lo * 128 + byte) % Half),
             next |-> rest.next, err |-> rest.err]
    IN  IF n >= 10 \/ pos >= Len(message)
        THEN [value |-> U32(0, 0), next |-> pos, err |-> TRUE]
        ELSE IF message[pos + 1] < 128
             THEN [value |-> U32(0, message[pos + 1]), next |-> pos + 1, err |-> FALSE]
             ELSE Join(message[pos + 1] - 128, read_varint(message, pos + 1, n + 1))

\* The entity codec's decode: the low bit of the first varint tells whether
\* a generation varint follows; the other bits are the index.
deserialize_entity(message, pos) ==
    LET Build(flagged, generation) ==
            [entity |-> Entity(U32((flagged.value.hi \div 2) % Half,
                                   ((flagged.value.hi % 2) * (Half \div 2))
                                       + (flagged.value.lo \div 2)),
                               generation.value),
             next |-> generation.next,
             err |-> flagged.err \/ generation.err]
        Read(flagged) ==
            IF ~flagged.err /\ flagged.value.lo % 2 = 1
            THEN Build(flagged, read_varint(message, flagged.next, 0))
            ELSE Build(flagged, [value |-> U32(0, 0), next |-> flagged.next,
                                 err |-> FALSE])
    IN  Read(read_varint(message, pos, 0))

\* ReplicationBuffer::new: the message starts with the four bytes of the
\* tick. result, phase and written are not fields of the struct: the result
\* of the last call, where its caller stands, and what has been written
\* (emitted counts the entities written for the current entity data, start
\* is the message and the position start_entity_data found, begin the
\* length of the message start_array found, arrays the arrays ended so far,
\* trimmed the message trim_empty_arrays found, sent what send_to sent).
ReplicationBuffer_new ==
    [message |-> <<0, 0, 0, 0>>, position |-> 4,
     array_pos |-> 0, array_len |-> 0,
     arrays_with_data |-> 0, trailing_empty_arrays |-> 0,
     entity_data_pos |-> 0, entity_data_len |-> 0,
     data_entity |-> Entity(U32(Half - 1, Half - 1), U32(0, 0)),
     result |-> "Ok", phase |-> "message", calls |-> 0,
     written |-> [op |-> "new", elements |-> 0, data |-> 0,
                  array_len |-> 0, entity_data_len |-> 0,
                  entity |-> <<>>, slot |-> <<>>, emitted |-> 0,
                  start |-> [message |-> <<0, 0, 0, 0>>, position |-> 4],
                  begin |-> 4, arrays |-> <<>>, trimmed |-> <<>>, sent |-> <<>>]]

\* Cursor<Vec<u8>>::write_all: overwrites from the position on and extends
\* the vector, filling a gap before the position with zeros.
write_all(b, bytes) ==
    [b EXCEPT !.message =
                  (IF b.position <= Len(b.message)
                   THEN SubSeq(b.message, 1, b.position)
                   ELSE b.message \o [i \in 1 .. b.position - Len(b.message) |-> 0])
                  \o bytes
                  \o SubSeq(b.message, b.position + Len(bytes) + 1, Len(b.message)),
              !.position = b.position + Len(bytes)]

\* What a call finds, kept for the properties.
Called(b, op) ==
    [b EXCEPT !.calls = @ + 1,
              !.written.op = op,
              !.written.array_len = b.array_len,
              !.written.entity_data_len = b.entity_data_len,
              !.written.entity = <<>>,
              !.written.slot = <<>>]

write_entity_in_u32(b, entity) ==
    LET flag == IF entity.generation = U32(0, 0) THEN 0 ELSE 1
        flagged_index == U32(((entity.index.hi * 2) + ((entity.index.lo * 2) \div Half))
                                 % Half,
                             ((entity.index.lo * 2) % Half) + flag)
        written == [b EXCEPT !.written.entity =
                                 <<[entity |-> entity, from |-> b.position]>>]
    IN  IF flag = 1
        THEN write_all(write_all(written, write_varint(flagged_index)),
                       write_varint(entity.generation))
        ELSE write_all(written, write_varint(flagged_index))

\* The index is shifted as a u64, so that no bit of a u32 index is lost.
write_entity(b, entity) ==
    LET flag == IF entity.generation = U32(0, 0) THEN 0 ELSE 1
        flagged_index == U32((entity.index.hi * 2) + ((entity.index.lo * 2) \div Half),
                             ((entity.index.lo * 2) % Half) + flag)
        written == [b EXCEPT !.written.entity =
                                 <<[entity |-> entity, from |-> b.position]>>]
    IN  IF flag = 1
        THEN write_all(write_all(written, write_varint(flagged_index)),
                       write_varint(entity.generation))
        ELSE write_all(written, write_varint(flagged_index))

start_array(b) ==
    [Called(b, "start_array") EXCEPT !.array_pos = b.position,
                                     !.position = b.position + 2,
                                     !.phase = "array",
                                     !.written.elements = 0,
                                     !.written.begin = Len(b.message)]

end_array(b) ==
    LET c == [Called(b, "end_array") EXCEPT
                  !.phase = "message",
                  !.written.slot = <<[value |-> b.array_len,
                                      written |-> b.written.elements]>>,
                  !.written.arrays = Append(@, [pos |-> b.array_pos,
                                                begin |-> b.written.begin,
                                                len |-> b.array_len])]
        slot == <<b.array_len % 256, b.array_len \div 256>>
    IN  IF b.array_len # 0
        THEN [write_all([c EXCEPT !.position = b.array_pos], slot)
                  EXCEPT !.position = b.position, !.array_len = 0,
                         !.arrays_with_data = b.arrays_with_data + 1,
                         !.trailing_empty_arrays = 0]
        ELSE write_all([c EXCEPT !.position = b.array_pos,
                                 !.trailing_empty_arrays = b.trailing_empty_arrays + 1],
                       slot)

start_entity_data(b, entity) ==
    [Called(b, "start_entity_data") EXCEPT !.data_entity = entity,
                                           !.entity_data_pos = b.position,
                                           !.phase = "entity",
                                           !.written.data = 0,
                                           !.written.emitted = 0,
                                           !.written.start =
                                               [message |-> b.message,
                                                position |-> b.position]]

write_data_entity(b) ==
    LET Skip(c) == [c EXCEPT !.entity_data_pos = c.position,
                             !.position = c.position + 1]
    IN  Skip(write_entity([b EXCEPT !.written.emitted = @ + 1], b.data_entity))

\* u16::checked_add(1).ok_or(SizeLimit) on array_len.
count_element(b) ==
    IF b.array_len = U16Max
    THEN [b EXCEPT !.result = "SizeLimit"]
    ELSE [b EXCEPT !.array_len = b.array_len + 1,
                   !.written.elements = b.written.elements + 1]

end_entity_data(b) ==
    LET c == [Called(b, "end_entity_data") EXCEPT !.phase = "array"]
    IN  IF b.entity_data_len # 0
        THEN count_element(
                 [write_all([c EXCEPT !.position = b.entity_data_pos,
                                      !.written.slot =
                                          <<[value |-> b.entity_data_len,
                                             written |-> b.written.data]>>],
                            <<b.entity_data_len>>)
                      EXCEPT !.position = b.position, !.entity_data_len = 0])
        ELSE [c EXCEPT !.position = b.entity_data_pos]

\* entity_data_len += 1 on a u8: with overflow checks the addition of 1 to
\* 255 panics, without them it wraps to 0.
count_data(b, overflow_checks) ==
    IF b.entity_data_len = U8Max
    THEN IF overflow_checks
         THEN [b EXCEPT !.result = "Panic"]
         ELSE [b EXCEPT !.entity_data_len = 0, !.written.data = b.written.data + 1]
    ELSE [b EXCEPT !.entity_data_len = b.entity_data_len + 1,
                   !.written.data = b.written.data + 1]

\* The component is serialized as one byte.
write_change(b, replication_id, component, overflow_checks) ==
    count_data(
        write_all(IF b.entity_data_len = 0
                  THEN write_data_entity(Called(b, "write_change"))
                  ELSE Called(b, "write_change"),
                  <<replication_id, component>>),
        overflow_checks)

write_removal(b, replication_id, overflow_checks) ==
    count_data(
        write_all(IF b.entity_data_len = 0
                  THEN write_data_entity(Called(b, "write_removal"))
                  ELSE Called(b, "write_removal"),
                  <<replication_id>>),
        overflow_checks)

write_despawn(b, entity) ==
    count_element(write_entity(Called(b, "write_despawn"), entity))

trim_nothing(b) == b

\* Vec::truncate to the length without the slots of the trailing empty
\* arrays; the position of the cursor stays.
trim_empty_arrays(b) ==
    [b EXCEPT !.message = SubSeq(b.message, 1,
                                 Len(b.message) - (b.trailing_empty_arrays * 2))]

\* A call of trim_empty_arrays once all arrays have been written.
trim(b) ==
    [trim_empty_arrays(Called(b, "trim_empty_arrays")) EXCEPT
         !.phase = "sent", !.written.trimmed = <<b.message>>]

\* ReplicationBuffer::send_to: a message without an array with data is
\* neither trimmed nor sent.
send_to(b) ==
    LET c == [Called(b, "send_to") EXCEPT !.phase = "sent"]
        Send(trimmed) == [trimmed EXCEPT !.written.sent = <<trimmed.message>>,
                                         !.written.trimmed = <<b.message>>]
    IN  IF b.arrays_with_data > 0 THEN Send(trim_empty_arrays(c)) ELSE c

\* ReplicationBuffer::reset: the message is cleared and the tick written.
ReplicationBuffer_reset(b) ==
    [Called(b, "reset") EXCEPT !.message = <<0, 0, 0, 0>>,
                               !.position = 4,
                               !.arrays_with_data = 0,
                               !.trailing_empty_arrays = 0,
                               !.phase = "message",
                               !.written.arrays = <<>>,
                               !.written.trimmed = <<>>,
                               !.written.sent = <<>>]

----------------------------------------------------------------------------
(* ReplicatedArchetypes (src/src/server/replicated_archetypes.rs). The     *)
(* world's archetypes are a sequence of component-id sets, the archetype   *)
(* of id i at position i + 1; rules are kept in priority order.            *)

\* ComponentId of Replicated and of the components A, B and C.
MarkerId == 0

ComponentA == 1

ComponentB == 2

ComponentC == 3

\* Components A and B are kept in tables, C in a sparse set.
get_storage_type(component_id) == IF component_id = ComponentC THEN "SparseSet" ELSE "Table"

\* ReplicationRule::matches: the archetype holds every component of the rule.
matches(rule, archetype) ==
    \A i \in 1 .. Len(rule.components) : rule.components[i][1] \in archetype

any_never(components, component_id) == FALSE

\* replicated_archetype.components.iter().any(..): the component is claimed.
any(components, component_id) ==
    \E i \in 1 .. Len(components) : components[i].component_id = component_id

\* The components of the archetype after the components of one rule, from
\* the i-th on, have been gone through.
RECURSIVE push_components(_, _, _)
push_components(components, rule, i) ==
    IF i > Len(rule.components)
    THEN components
    ELSE push_components(
             IF any(components, rule.components[i][1])
             THEN components
             ELSE Append(components,
                         [component_id |-> rule.components[i][1],
                          storage_type |-> get_storage_type(rule.components[i][1]),
                          fns_id |-> rule.components[i][2]]),
             rule, i + 1)

\* The components of the archetype after the rules from the i-th on.
RECURSIVE match_rules(_, _, _, _)
match_rules(components, rules, archetype, i) ==
    IF i > Len(rules)
    THEN components
    ELSE match_rules(
             IF matches(rules[i], archetype)
             THEN push_components(components, rules[i], 1)
             ELSE components,
             rules, archetype, i + 1)

ReplicatedArchetype_new(id) == [id |-> id, components |-> <<>>]

from_initial(r) == 0

\* mem::replace(&mut self.generation, ..): the generation seen so far.
old_generation(r) == r.generation

\* The cached archetypes after the world's archetypes from id on.
RECURSIVE scan(_, _, _)
scan(archetypes, r, id) ==
    IF id >= Len(r.world)
    THEN archetypes
    ELSE scan(IF r.marker_id \in r.world[id + 1]
              THEN Append(archetypes,
                          [ReplicatedArchetype_new(id) EXCEPT
                               !.components = match_rules(<<>>, r.rules, r.world[id + 1], 1)])
              ELSE archetypes,
              r, id + 1)

\* ReplicatedArchetypes::update, with what it went through.
ReplicatedArchetypes_update(r) ==
    [r EXCEPT !.generation = Len(r.world),
              !.archetypes = scan(r.archetypes, r, old_generation(r)),
              !.op = "update",
              !.scanned = {id \in 0 .. Len(r.world) - 1 : id >= old_generation(r)},
              !.before = [generation |-> r.generation, archetypes |-> r.archetypes,
                          world |-> r.world, updated |-> r.updated],
              !.updated = Len(r.world)]

\* ReplicatedArchetypes::from_world, in a world that holds the empty
\* archetype only.
from_world(rules) ==
    [marker_id |-> MarkerId, generation |-> 0, archetypes |-> <<>>,
     world |-> <<{}>>, rules |-> rules,
     op |-> "from_world", scanned |-> {},
     before |-> [generation |-> 0, archetypes |-> <<>>, world |-> <<{}>>,
                 updated |-> 0],
     updated |-> 0]

\* The world creates the archetype of a set of components.
create_archetype(r, archetype) ==
    [r EXCEPT !.world = Append(@, archetype),
              !.op = "create",
              !.scanned = {},
              !.before = [generation |-> r.generation, archetypes |-> r.archetypes,
                          world |-> r.world, updated |-> r.updated]]

ReplicatedArchetypes_start == from_world(<<>>)

----------------------------------------------------------------------------
(* RepliconServer (src/src/server/replicon_server.rs): per channel the     *)
(* sent messages and the received messages of every added client, and the  *)
(* message vectors kept for reuse. A Vec is a sequence, its last element   *)
(* the one pop takes.                                                      *)

\* RepliconServer::default followed by setup_channels.
setup_channels(server_channels_count, client_channels_count) ==
    [running |-> FALSE,
     sent_messages |-> [channel_id \in 1 .. server_channels_count |-> <<>>],
     received_messages |-> [channel_id \in 1 .. client_channels_count |-> <<>>],
     client_buffer |-> <<>>,
     panic |-> FALSE, calls |-> 0, op |-> "setup_channels", peer_id |-> 0, channel_id |-> 0,
     returned |-> <<>>,
     before |-> [sent_messages |-> [channel_id \in 1 .. server_channels_count |-> <<>>],
                 received_messages |->
                     [channel_id \in 1 .. client_channels_count |-> <<>>]]]

\* What a call found and did.
ServerCalled(s, op, peer_id) ==
    [s EXCEPT !.calls = @ + 1, !.op = op, !.peer_id = peer_id, !.channel_id = 0,
              !.returned = <<>>,
              !.before = [sent_messages |-> s.sent_messages,
                          received_messages |-> s.received_messages]]

\* The vector that the i-th pop of client_buffer yields.
pop_or_default(client_buffer, i) ==
    IF i <= Len(client_buffer) THEN client_buffer[Len(client_buffer) - i + 1] ELSE <<>>

\* RepliconServer::add_client
add_client(s, peer_id) ==
    LET channels == Len(s.received_messages)
        left == IF Len(s.client_buffer) > channels
                THEN Len(s.client_buffer) - channels ELSE 0
    IN  [ServerCalled(s, "add_client", peer_id) EXCEPT
             !.received_messages =
                 [channel_id \in 1 .. channels |->
                      Put(s.received_messages[channel_id], peer_id,
                          pop_or_default(s.client_buffer, channel_id))],
             !.client_buffer = SubSeq(s.client_buffer, 1, left)]

retain_all(channel_messages, peer_id) == channel_messages

\* The messages of a channel that retain keeps.
RECURSIVE retain(_, _)
retain(channel_messages, peer_id) ==
    IF channel_messages = <<>>
    THEN <<>>
    ELSE IF Head(channel_messages)[1] # peer_id
         THEN <<Head(channel_messages)>> \o retain(Tail(channel_messages), peer_id)
         ELSE retain(Tail(channel_messages), peer_id)

\* RepliconServer::remove_client
remove_client(s, peer_id) ==
    LET channels == Len(s.received_messages)
    IN  IF channels > 0 /\ peer_id \notin DOMAIN s.received_messages[1]
        THEN [ServerCalled(s, "remove_client", peer_id) EXCEPT !.panic = TRUE]
        ELSE [ServerCalled(s, "remove_client", peer_id) EXCEPT
                  !.sent_messages =
                      [channel_id \in 1 .. Len(s.sent_messages) |->
                           retain(s.sent_messages[channel_id], peer_id)],
                  !.received_messages =
                      [channel_id \in 1 .. channels |->
                           Drop(s.received_messages[channel_id], peer_id)],
                  !.client_buffer =
                      s.client_buffer \o [channel_id \in 1 .. channels |-> <<>>]]

\* RepliconServer::receive: channel ids count from 0.
RepliconServer_receive(s, peer_id, channel_id) ==
    IF channel_id >= Len(s.received_messages)
    THEN [ServerCalled(s, "receive", peer_id) EXCEPT !.panic = TRUE]
    ELSE LET channel_messages == s.received_messages[channel_id + 1]
         IN  IF peer_id \notin DOMAIN channel_messages \/ channel_messages[peer_id] = <<>>
             THEN [ServerCalled(s, "receive", peer_id) EXCEPT
                       !.channel_id = channel_id, !.returned = <<"None">>]
             ELSE [ServerCalled(s, "receive", peer_id) EXCEPT
                       !.channel_id = channel_id,
                       !.returned =
                           <<"Some", channel_messages[peer_id][Len(channel_messages[peer_id])]>>,
                       !.received_messages =
                           [c \in 1 .. Len(s.received_messages) |->
                                IF c = channel_id + 1
                                THEN Put(channel_messages, peer_id,
                                         SubSeq(channel_messages[peer_id], 1,
                                                Len(channel_messages[peer_id]) - 1))
                                ELSE s.received_messages[c]]]

\* RepliconServer::send
send(s, peer_id, channel_id, message) ==
    IF channel_id >= Len(s.sent_messages)
    THEN [ServerCalled(s, "send", peer_id) EXCEPT !.panic = TRUE]
    ELSE [ServerCalled(s, "send", peer_id) EXCEPT
              !.sent_messages =
                  [c \in 1 .. Len(s.sent_messages) |->
                       IF c = channel_id + 1
                       THEN Append(s.sent_messages[c], <<peer_id, message>>)
                       ELSE s.sent_messages[c]]]

\* The orders in which a hash map of these peers may be drained.
DrainOrders(peers) ==
    {order \in [1 .. Cardinality(peers) -> peers] :
         \A i, j \in 1 .. Cardinality(peers) : order[i] = order[j] => i = j}

\* The vectors that draining the channels from the i-th on yields, each
\* channel in the order given for it.
RECURSIVE drain(_, _, _)
drain(channels, orders, i) ==
    IF i > Len(channels)
    THEN <<>>
    ELSE [k \in 1 .. Len(orders[i]) |-> channels[i][orders[i][k]]]
             \o drain(channels, orders, i + 1)

\* RepliconServer::set_running; orders gives for each receive channel the
\* order in which its hash map is drained.
set_running(s, running, orders) ==
    IF running
    THEN [ServerCalled(s, "set_running", 0) EXCEPT !.running = TRUE]
    ELSE [ServerCalled(s, "set_running", 0) EXCEPT
              !.running = FALSE,
              !.sent_messages = [channel_id \in 1 .. Len(s.sent_messages) |-> <<>>],
              !.received_messages =
                  [channel_id \in 1 .. Len(s.received_messages) |-> <<>>],
              !.client_buffer = s.client_buffer \o drain(s.received_messages, orders, 1)]

\* RepliconServer::insert_received
RepliconServer_insert_received(s, peer_id, message, channel_id) ==
    IF \/ channel_id >= Len(s.received_messages)
       \/ peer_id \notin DOMAIN s.received_messages[channel_id + 1]
    THEN [ServerCalled(s, "insert_received", peer_id) EXCEPT !.panic = TRUE]
    ELSE [ServerCalled(s, "insert_received", peer_id) EXCEPT
              !.channel_id = channel_id,
              !.received_messages =
                  [c \in 1 .. Len(s.received_messages) |->
                       IF c = channel_id + 1
                       THEN Put(s.received_messages[c], peer_id,
                                Append(s.received_messages[c][peer_id], message))
                       ELSE s.received_messages[c]]]

\* A server with one send channel and two receive channels.
RepliconServer_start == setup_channels(1, 2)

\* The server after two clients were added, both have sent it messages and
\* messages for both wait to be sent.
RepliconServer_serving ==
    LET added == add_client(add_client(set_running(RepliconServer_start, TRUE, <<>>), 1), 2)
        received ==
            RepliconServer_insert_received(
                RepliconServer_insert_received(
                    RepliconServer_insert_received(added, 1, 7, 0), 2, 7, 0), 2, 8, 0)
        sent == send(send(send(send(received, 1, 0, 7), 2, 0, 7), 2, 0, 8), 1, 0, 8)
    IN  [sent EXCEPT !.calls = 0]

----------------------------------------------------------------------------
(* The client as a state machine.                                          *)

Channels == {"Updates", "Mutations"}

\* Option<ClientId> of RepliconClientStatus::Connected; 0 is None.
ClientIds == {0, 1}

Disconnected == [kind |-> "Disconnected", client_id |-> 0]

Connecting == [kind |-> "Connecting", client_id |-> 0]

Connected(client_id) == [kind |-> "Connected", client_id |-> client_id]

Statuses == {Disconnected, Connecting} \cup {Connected(id) : id \in ClientIds}

is_connected == status.kind = "Connected"

Snapshot ==
    [server_update_tick |-> server_update_tick, entity_map |-> entity_map,
     buffered_mutations |-> buffered_mutations, world |-> world,
     received_messages |-> received_messages, sent_messages |-> sent_messages,
     status |-> status, next_entity |-> next_entity]

\* The client and its resources at startup.
InitClient(markers, prespawns) ==
    /\ status = Disconnected
    /\ received_messages = [c \in Channels |-> <<>>]
    /\ sent_messages = <<>>
    /\ server_update_tick = ZeroTick
    /\ entity_map = EmptyMap
    /\ buffered_mutations = <<>>
    /\ history_marker \in markers
    /\ \E prespawned \in prespawns :
           /\ world = [c \in 1..prespawned |->
                          [replicated |-> FALSE, history |-> <<>>, marker |-> FALSE,
                           comps |-> <<>>]] @@ <<>>
           /\ next_entity = prespawned + 1
    /\ last_connected = FALSE
    /\ panicked = FALSE
    /\ inserted = 0
    /\ last_op = "init"
    /\ pre = Snapshot
    /\ entries = <<>>
    /\ calls = <<>>
    /\ arrays = <<>>
    /\ returned = <<>>

InitWith(markers, prespawns, buffers) ==
    /\ InitClient(markers, prespawns)
    /\ buffer \in buffers
    /\ confirmed = Confirmed_start
    /\ replicated_archetypes = ReplicatedArchetypes_start
    /\ server = RepliconServer_start

\* The application uses no marker and has spawned nothing.
Init == InitWith({FALSE}, {0}, {ReplicationBuffer_new})

\* The application may mark its replicated entities as history-consuming.
InitReceive == InitWith(BOOLEAN, {0}, {ReplicationBuffer_new})

\* The application may have spawned an entity for the server to map.
InitMapping == InitWith({FALSE}, {0, 1}, {ReplicationBuffer_new})

\* A step that runs no receive pass.
Observe(op) ==
    /\ last_op' = op
    /\ pre' = Snapshot
    /\ entries' = <<>>
    /\ calls' = <<>>
    /\ arrays' = <<>>
    /\ returned' = <<>>

\* RepliconClient::insert_received, called by the messaging backend.
insert_received(channel, message) ==
    /\ ~panicked
    /\ inserted < MaxMessages
    /\ IF is_connected
       THEN /\ inserted' = inserted + 1
            /\ received_messages' = [received_messages EXCEPT ![channel] = Append(@, message)]
       ELSE UNCHANGED <<inserted, received_messages>>
    /\ Observe("insert_received")
    /\ UNCHANGED <<status, sent_messages, server_update_tick, entity_map,
                   buffered_mutations, world, next_entity, history_marker, last_connected, panicked,
                   buffer, confirmed, replicated_archetypes, server>>

send_always(channel, message) ==
    /\ ~panicked
    /\ Len(sent_messages) < MaxMessages
    /\ sent_messages' = Append(sent_messages, <<channel, message>>)
    /\ Observe("send")
    /\ UNCHANGED <<status, received_messages, server_update_tick, entity_map,
                   buffered_mutations, world, next_entity, history_marker,
                   last_connected, panicked, inserted, buffer, confirmed,
                   replicated_archetypes, server>>

\* RepliconClient::send, called by the systems that send to the server.
RepliconClient_send(channel, message) ==
    /\ ~panicked
    /\ Len(sent_messages) < MaxMessages
    /\ IF is_connected
       THEN sent_messages' = Append(sent_messages, <<channel, message>>)
       ELSE UNCHANGED sent_messages
    /\ Observe("send")
    /\ UNCHANGED <<status, received_messages, server_update_tick, entity_map,
                   buffered_mutations, world, next_entity, history_marker,
                   last_connected, panicked, inserted, buffer, confirmed,
                   replicated_archetypes, server>>

\* Vec::drain(..), the iterator run to its end: every element in order.
drain_all(channel_messages) == [returned |-> channel_messages, left |-> <<>>]

\* RepliconClient::receive: the messages of the channel are drained, also
\* when the client is not connected.
RepliconClient_receive(channel) ==
    /\ ~panicked
    /\ received_messages' = [c \in Channels |->
                                IF c = channel THEN drain_all(received_messages[c]).left
                                ELSE received_messages[c]]
    /\ returned' = drain_all(received_messages[channel]).returned
    /\ last_op' = "receive"
    /\ pre' = Snapshot
    /\ UNCHANGED <<status, sent_messages, server_update_tick, entity_map,
                   buffered_mutations, world, next_entity, history_marker,
                   last_connected, panicked, inserted, entries, calls, arrays,
                   buffer, confirmed, replicated_archetypes, server>>

\* RepliconClient::drain_sent, called by the messaging backend.
drain_sent ==
    /\ ~panicked
    /\ sent_messages' = drain_all(sent_messages).left
    /\ returned' = drain_all(sent_messages).returned
    /\ last_op' = "drain_sent"
    /\ pre' = Snapshot
    /\ UNCHANGED <<status, received_messages, server_update_tick, entity_map,
                   buffered_mutations, world, next_entity, history_marker,
                   last_connected, panicked, inserted, entries, calls, arrays,
                   buffer, confirmed, replicated_archetypes, server>>

set_status_discarding_always(new_status) ==
    /\ ~panicked
    /\ IF is_connected
       THEN /\ received_messages' = [c \in Channels |-> <<>>]
            /\ sent_messages' = <<>>
       ELSE UNCHANGED <<received_messages, sent_messages>>
    /\ status' = new_status
    /\ Observe("set_status")
    /\ UNCHANGED <<server_update_tick, entity_map, buffered_mutations, world,
                   next_entity, history_marker, last_connected, panicked, inserted,
                   buffer, confirmed, replicated_archetypes, server>>

\* RepliconClient::set_status, called by the messaging backend.
set_status(new_status) ==
    /\ ~panicked
    /\ IF is_connected /\ new_status.kind # "Connected"
       THEN /\ received_messages' = [c \in Channels |-> <<>>]
            /\ sent_messages' = <<>>
       ELSE UNCHANGED <<received_messages, sent_messages>>
    /\ status' = new_status
    /\ Observe("set_status")
    /\ UNCHANGED <<server_update_tick, entity_map, buffered_mutations, world,
                   next_entity, history_marker, last_connected, panicked, inserted,
                   buffer, confirmed, replicated_archetypes, server>>

reset_keeping_buffer ==
    /\ ~panicked
    /\ status = Disconnected
    /\ last_connected
    /\ last_connected' = FALSE
    /\ server_update_tick' = ZeroTick
    /\ entity_map' = EmptyMap
    /\ Observe("reset")
    /\ UNCHANGED <<status, received_messages, sent_messages, world, next_entity,
                   history_marker, panicked, inserted, buffered_mutations, buffer,
                   confirmed, replicated_archetypes, server>>

\* The reset system, in ClientSet::Reset, run if the client just disconnected.
reset ==
    /\ ~panicked
    /\ status = Disconnected
    /\ last_connected
    /\ last_connected' = FALSE
    /\ server_update_tick' = ZeroTick
    /\ entity_map' = EmptyMap
    /\ buffered_mutations' = <<>>
    /\ Observe("reset")
    /\ UNCHANGED <<status, received_messages, sent_messages, world, next_entity,
                   history_marker, panicked, inserted, buffer, confirmed,
                   replicated_archetypes, server>>

\* r: what a receive pass leaves behind.
finish_receive(r) ==
    /\ r.st.next <= MaxEntities + 1
    /\ server_update_tick' = r.st.tick
    /\ entity_map' = r.st.map
    /\ world' = r.st.world
    /\ next_entity' = r.st.next
    /\ buffered_mutations' = r.buffered
    /\ received_messages' = [c \in Channels |->
                                IF c = "Mutations" THEN r.mutations ELSE <<>>]
    /\ sent_messages' = sent_messages \o r.sent
    /\ panicked' = r.failed
    /\ entries' = r.st.entries
    /\ calls' = r.st.calls
    /\ arrays' = r.st.arrays

\* The receive_replication system, in ClientSet::Receive, run if connected.
receive_replication ==
    /\ ~panicked
    /\ is_connected
    /\ \E debug_assertions \in BOOLEAN :
           finish_receive(apply_replication(
               [Pass(server_update_tick, entity_map, world, next_entity, history_marker)
                    EXCEPT !.debug_assertions = debug_assertions],
               buffered_mutations,
               received_messages["Updates"], received_messages["Mutations"]))
    /\ last_connected' = TRUE
    /\ last_op' = "receive_replication"
    /\ pre' = Snapshot
    /\ returned' = <<>>
    /\ UNCHANGED <<status, inserted, history_marker, buffer, confirmed,
                   replicated_archetypes, server>>

\* The whole client: sessions come and go.
Next ==
    \/ \E m \in SessionUpdates : insert_received("Updates", m)
    \/ \E m \in SessionMutates : insert_received("Mutations", m)
    \/ \E s \in Statuses : set_status(s)
    \/ reset
    \/ receive_replication

Spec == Init /\ [][Next]_vars

\* One session: the client connects and receives.
NextReceive ==
    \/ \E m \in UpdateInputs : insert_received("Updates", m)
    \/ \E m \in MutateInputs : insert_received("Mutations", m)
    \/ (~is_connected /\ set_status(Connected(0)))
    \/ receive_replication

SpecReceive == InitReceive /\ [][NextReceive]_vars

\* One session in which entities are mapped by MAPPINGS and by references.
NextMapping ==
    \/ \E m \in MappingUpdates : insert_received("Updates", m)
    \/ \E m \in MappingMutates : insert_received("Mutations", m)
    \/ (~is_connected /\ set_status(Connected(0)))
    \/ receive_replication

SpecMapping == InitMapping /\ [][NextMapping]_vars

\* Messages as the backend and the sending systems hand them over.
BackendMessages == {<<1>>, <<2>>}

\* The messaging backend and the sending systems calling the RepliconClient.
NextClient ==
    \/ \E c \in Channels, m \in BackendMessages : insert_received(c, m)
    \/ \E c \in Channels, m \in BackendMessages : RepliconClient_send(c, m)
    \/ \E s \in Statuses : set_status(s)
    \/ \E c \in Channels : RepliconClient_receive(c)
    \/ drain_sent

SpecClient == Init /\ [][NextClient]_vars

----------------------------------------------------------------------------
(* The server filling the buffer of one client.                            *)

\* The buffer after start_array and n calls of write_despawn with the
\* entity of index 0 and generation 0, n > 0: one byte each.
despawns_written(n) ==
    [ReplicationBuffer_new EXCEPT
         !.message = [i \in 1 .. 6 + n |-> 0],
         !.position = 6 + n,
         !.array_pos = 4,
         !.array_len = n,
         !.phase = "array",
         !.written = [op |-> "write_despawn", elements |-> n, data |-> 0,
                      array_len |-> n - 1, entity_data_len |-> 0,
                      entity |-> <<[entity |-> Entity(U32(0, 0), U32(0, 0)),
                                    from |-> 5 + n]>>,
                      slot |-> <<>>, emitted |-> 0,
                      start |-> [message |-> <<0, 0, 0, 0>>, position |-> 4],
                      begin |-> 4, arrays |-> <<>>, trimmed |-> <<>>, sent |-> <<>>]]

\* The buffer after start_array, start_entity_data with the entity of index
\* 1 and generation 0, and n calls of write_change with id 0 and component
\* 0, n > 1: the entity, the slot of its count, two bytes each.
changes_written(n) ==
    [ReplicationBuffer_new EXCEPT
         !.message = [i \in 1 .. 8 + 2 * n |-> IF i = 7 THEN 2 ELSE 0],
         !.position = 8 + 2 * n,
         !.array_pos = 4,
         !.entity_data_pos = 7,
         !.entity_data_len = n,
         !.data_entity = Entity(U32(0, 1), U32(0, 0)),
         !.phase = "entity",
         !.written = [op |-> "write_change", elements |-> 0, data |-> n,
                      array_len |-> 0, entity_data_len |-> n - 1,
                      entity |-> <<>>, slot |-> <<>>, emitted |-> 1,
                      start |-> [message |-> <<0, 0, 0, 0>>, position |-> 6],
                      begin |-> 4, arrays |-> <<>>, trimmed |-> <<>>, sent |-> <<>>]]

\* An empty buffer, and buffers one step from the limit of each counter.
BufferStates ==
    {ReplicationBuffer_new, despawns_written(U16Max - 1), changes_written(U8Max - 1)}

\* Entities with one-byte and with longer varints.
BufferEntities ==
    {Entity(U32(0, 0), U32(0, 0)), Entity(U32(0, 1), U32(0, 1)),
     Entity(U32(0, 64), U32(0, 128)), Entity(U32(Half \div 2, 0), U32(0, 0)),
     Entity(U32(Half - 1, Half - 1), U32(Half - 1, Half - 1))}

InitBuffer == InitWith({FALSE}, {0}, BufferStates)

\* A call the server makes on the buffer, leaving it as b.
Buffered(b) ==
    /\ buffer.result = "Ok"
    /\ buffer.calls < MaxWrites
    /\ buffer' = b
    /\ UNCHANGED <<status, received_messages, sent_messages, server_update_tick,
                   entity_map, buffered_mutations, world, next_entity, history_marker,
                   last_connected, panicked, inserted, last_op, pre, entries, calls, arrays,
                   confirmed, replicated_archetypes, server, returned>>

\* Arrays hold despawns or entity data; changes and removals are written
\* inside entity data.
NextBuffer ==
    \/ (buffer.phase = "message" /\ Buffered(start_array(buffer)))
    \/ (buffer.phase = "array" /\ Buffered(end_array(buffer)))
    \/ \E entity \in BufferEntities :
           buffer.phase = "array" /\ Buffered(write_despawn(buffer, entity))
    \/ \E entity \in BufferEntities :
           buffer.phase = "array" /\ Buffered(start_entity_data(buffer, entity))
    \/ \E overflow_checks \in BOOLEAN :
           buffer.phase = "entity"
               /\ Buffered(write_change(buffer, 0, 0, overflow_checks))
    \/ \E overflow_checks \in BOOLEAN :
           buffer.phase = "entity"
               /\ Buffered(write_removal(buffer, 1, overflow_checks))
    \/ (buffer.phase = "entity" /\ Buffered(end_entity_data(buffer)))

SpecBuffer == InitBuffer /\ [][NextBuffer]_vars

----------------------------------------------------------------------------
(* The server writing the arrays of one message and sending it.            *)

MaxArrayCalls == 9

\* A call the server makes on the buffer of a message, leaving it as b.
Arrayed(b) ==
    /\ buffer.result = "Ok"
    /\ buffer.calls < MaxArrayCalls
    /\ buffer' = b
    /\ UNCHANGED <<status, received_messages, sent_messages, server_update_tick,
                   entity_map, buffered_mutations, world, next_entity, history_marker,
                   last_connected, panicked, inserted, last_op, pre, entries, calls, arrays,
                   confirmed, replicated_archetypes, server, returned>>

\* Arrays that are empty, hold despawns, or hold entity data with or
\* without changes; the message is then sent, or trimmed as it is, and the
\* buffer reset for the next one.
NextArrays ==
    \/ (buffer.phase = "message" /\ Arrayed(start_array(buffer)))
    \/ (buffer.phase = "array" /\ Arrayed(end_array(buffer)))
    \/ (buffer.phase = "array"
           /\ Arrayed(write_despawn(buffer, Entity(U32(0, 1), U32(0, 1)))))
    \/ (buffer.phase = "array"
           /\ Arrayed(start_entity_data(buffer, Entity(U32(0, 1), U32(0, 0)))))
    \/ (buffer.phase = "entity" /\ Arrayed(write_change(buffer, 0, 0, TRUE)))
    \/ (buffer.phase = "entity" /\ Arrayed(end_entity_data(buffer)))
    \/ (buffer.phase = "message" /\ Arrayed(send_to(buffer)))
    \/ (buffer.phase = "message" /\ Arrayed(trim(buffer)))
    \/ (buffer.phase = "sent" /\ Arrayed(ReplicationBuffer_reset(buffer)))

SpecArrays == Init /\ [][NextArrays]_vars

----------------------------------------------------------------------------
(* One Confirmed component, confirmed tick after tick.                     *)

\* Ticks next to each other, 64 and more apart, and around the wraparound.
ConfirmedTicks ==
    {ZeroTick, Tick(0, 1), Tick(0, 2), Tick(0, 65), Tick(0, 66), Tick(0, 67),
     Tick(0, 130), Tick(0, 200), Tick(Half - 1, Half - 2), MaxTick}

InitConfirmed ==
    /\ InitClient({FALSE}, {0})
    /\ buffer = ReplicationBuffer_new
    /\ confirmed \in {Confirmed_created(last_tick) : last_tick \in ConfirmedTicks}
    /\ replicated_archetypes = ReplicatedArchetypes_start
    /\ server = RepliconServer_start

\* A call of Confirmed::set, leaving the component as c.
Set(c) ==
    /\ ~confirmed.panic
    /\ confirmed.calls < MaxSets
    /\ confirmed' = c
    /\ UNCHANGED <<status, received_messages, sent_messages, server_update_tick,
                   entity_map, buffered_mutations, world, next_entity, history_marker,
                   last_connected, panicked, inserted, last_op, pre, entries, calls, arrays,
                   buffer, replicated_archetypes, server, returned>>

NextConfirmed ==
    \E tick \in ConfirmedTicks, overflow_checks \in BOOLEAN :
        Set(Confirmed_after(confirmed, tick, overflow_checks))

SpecConfirmed == InitConfirmed /\ [][NextConfirmed]_vars

----------------------------------------------------------------------------
(* The server's world creating archetypes between updates of the cache.    *)

Rule(priority, components) == [priority |-> priority, components |-> components]

\* Rule lists in priority order (a group has its size as priority, a single
\* component 1 unless a priority is given), FnsIds in registration order.
RuleLists ==
    {<<>>,
     <<Rule(2, <<<<ComponentA, 1>>, <<ComponentB, 2>>>>), Rule(1, <<<<ComponentA, 0>>>>)>>,
     <<Rule(2, <<<<ComponentA, 0>>, <<ComponentC, 1>>>>),
       Rule(2, <<<<ComponentA, 2>>, <<ComponentB, 3>>>>)>>,
     <<Rule(5, <<<<ComponentA, 0>>>>),
       Rule(2, <<<<ComponentA, 1>>, <<ComponentB, 2>>>>),
       Rule(1, <<<<ComponentB, 3>>>>), Rule(1, <<<<ComponentC, 4>>>>)>>}

\* Archetypes the world may create, with and without the marker.
ArchetypeInputs ==
    {{MarkerId}, {MarkerId, ComponentA}, {MarkerId, ComponentB},
     {MarkerId, ComponentA, ComponentB},
     {MarkerId, ComponentA, ComponentB, ComponentC}, {ComponentA, ComponentB}}

InitArchetypes ==
    /\ InitClient({FALSE}, {0})
    /\ buffer = ReplicationBuffer_new
    /\ confirmed = Confirmed_start
    /\ replicated_archetypes \in {from_world(rules) : rules \in RuleLists}
    /\ server = RepliconServer_start

\* A step of the server's world or of the cache, leaving them as r.
Archetypes(r) ==
    /\ replicated_archetypes' = r
    /\ UNCHANGED <<status, received_messages, sent_messages, server_update_tick,
                   entity_map, buffered_mutations, world, next_entity, history_marker,
                   last_connected, panicked, inserted, last_op, pre, entries, calls, arrays,
                   buffer, confirmed, server, returned>>

\* The world never holds two archetypes of the same components.
NextArchetypes ==
    \/ \E archetype \in ArchetypeInputs :
           /\ Len(replicated_archetypes.world) <= MaxArchetypes
           /\ \A i \in 1 .. Len(replicated_archetypes.world) :
                  replicated_archetypes.world[i] # archetype
           /\ Archetypes(create_archetype(replicated_archetypes, archetype))
    \/ Archetypes(ReplicatedArchetypes_update(replicated_archetypes))

SpecArchetypes == InitArchetypes /\ [][NextArchetypes]_vars

----------------------------------------------------------------------------
(* The messaging backend and the server plugin calling the RepliconServer. *)

PeerIds == {1, 2}

\* Client messages, as the backend hands them over.
ClientMessages == {7, 8}

InitServer ==
    /\ InitClient({FALSE}, {0})
    /\ buffer = ReplicationBuffer_new
    /\ confirmed = Confirmed_start
    /\ replicated_archetypes = ReplicatedArchetypes_start
    /\ server \in {RepliconServer_start, RepliconServer_serving}

\* A call on the server resource, leaving it as s.
Served(s) ==
    /\ ~server.panic
    /\ server.calls < MaxServerCalls
    /\ server' = s
    /\ UNCHANGED <<status, received_messages, sent_messages, server_update_tick,
                   entity_map, buffered_mutations, world, next_entity, history_marker,
                   last_connected, panicked, inserted, last_op, pre, entries, calls, arrays,
                   buffer, confirmed, replicated_archetypes, returned>>

NextServer ==
    \/ \E peer_id \in PeerIds : Served(add_client(server, peer_id))
    \/ \E peer_id \in PeerIds : Served(remove_client(server, peer_id))
    \/ \E peer_id \in PeerIds, message \in ClientMessages, channel_id \in 0 .. 1 :
           Served(RepliconServer_insert_received(server, peer_id, message, channel_id))
    \/ \E peer_id \in PeerIds, channel_id \in 0 .. 1 :
           Served(RepliconServer_receive(server, peer_id, channel_id))
    \/ \E peer_id \in PeerIds, message \in ClientMessages :
           Served(send(server, peer_id, 0, message))
    \/ \E running \in BOOLEAN,
          orders \in [1 .. 2 -> DrainOrders(DOMAIN server.received_messages[1])] :
           Served(set_running(server, running, orders))

SpecServer == InitServer /\ [][NextServer]_vars

----------------------------------------------------------------------------
(* What a receive pass was given, read back from the history variables.    *)

ReceivePassed == last_op = "receive_replication"

\* The pass ran to its end: nothing was unwrapped or expected in vain.
ReceiveCompleted == ReceivePassed /\ ~panicked

ReceivedMutations == pre.received_messages["Mutations"]

\* BufferedMutations when the drain starts.
DrainInput ==
    buffer_mutate_messages(pre.buffered_mutations, ReceivedMutations, 1, <<>>).buffered

\* The server entities a mutate payload addresses, in order.
RECURSIVE MutatedEntities(_, _)
MutatedEntities(payload, pos) ==
    IF pos + 2 > Len(payload)
    THEN <<>>
    ELSE <<payload[pos + 1]>> \o MutatedEntities(payload, pos + 2 + payload[pos + 2])

\* The apply_mutations calls that applying these buffered messages makes.
CallsOf(mutates) ==
    Concat([i \in 1..Len(mutates) |->
               LET mutated == MutatedEntities(mutates[i].message, 0)
               IN  [j \in 1..Len(mutated) |-> <<mutates[i].message_tick, mutated[j]>>]])

CallsMade == [i \in 1..Len(calls) |-> <<calls[i].message_tick, calls[i].server_entity>>]

Waits(mutate) == TickLt(server_update_tick, mutate.update_tick)

Due(mutate) == ~TickLt(server_update_tick, mutate.update_tick)

\* The entity an apply_mutations call addresses, as the call found it.
Known(k) == calls[k].server_entity \in DOMAIN calls[k].before.map.server_to_client

ClientOf(k) == calls[k].before.map.server_to_client[calls[k].server_entity]

Before(k) == calls[k].before.world[ClientOf(k)]

After(k) == calls[k].after.world[ClientOf(k)]

Confirmed(k) ==
    /\ Known(k)
    /\ ClientOf(k) \in DOMAIN calls[k].before.world
    /\ Before(k).history # <<>>

LastTick(k) == Before(k).history[1].last_tick

\* The message tick of the call is newer than the entity's last confirmed tick.
Newer(k) == TickGt(calls[k].message_tick, LastTick(k))

\* The call moved the cursor past the entity's data and did nothing else.
Skipped(k) ==
    /\ calls[k].ok
    /\ calls[k].after = calls[k].before
    /\ calls[k].next_pos = calls[k].pos + calls[k].data_size

\* The entity that follows in the same mutate message is processed next.
Continues(k) ==
    calls[k].next_pos < calls[k].len =>
        /\ k + 1 \in DOMAIN calls
        /\ calls[k + 1].message_tick = calls[k].message_tick
        /\ calls[k + 1].len = calls[k].len
        /\ calls[k + 1].pos = calls[k].next_pos + 2

\* Two calls of one pass for the same entity, from messages of distinct ticks.
SameEntity(i, j) ==
    /\ i < j
    /\ calls[i].server_entity = calls[j].server_entity
    /\ calls[i].message_tick # calls[j].message_tick

\* The first call of the pass for its entity.
First(i) == \A h \in 1..(i - 1) : calls[h].server_entity # calls[i].server_entity

----------------------------------------------------------------------------
(* Properties.                                                             *)

\* C1: a buffered mutate message whose update_tick is newer than the
\* ServerUpdateTick the drain sees stays in BufferedMutations unchanged; in a
\* pass that runs to its end the buffer holds exactly those messages, and
\* every other one (update_tick <= ServerUpdateTick) has been applied, in
\* buffer order, and is gone from the buffer.
C1_BufferedUntilUpdateTick ==
    ReceivePassed =>
        /\ \A i \in DOMAIN pre.buffered_mutations :
               Waits(pre.buffered_mutations[i]) =>
                   \E j \in DOMAIN buffered_mutations :
                       buffered_mutations[j] = pre.buffered_mutations[i]
        /\ ~panicked =>
               /\ buffered_mutations = SelectSeq(DrainInput, Waits)
               /\ CallsMade = CallsOf(SelectSeq(DrainInput, Due))

\* A message that waited through an earlier pass is applied by this one,
\* while another one keeps waiting.
C1_Witness ==
    /\ ReceiveCompleted
    /\ \E i \in DOMAIN pre.buffered_mutations :
           /\ Due(pre.buffered_mutations[i])
           /\ \E k \in DOMAIN calls :
                  calls[k].message_tick = pre.buffered_mutations[i].message_tick
    /\ buffered_mutations # <<>>

\* C2: ServerUpdateTick never moves backwards within a session: a receive
\* pass leaves it no older than it was, an update message with an older tick
\* leaving it unchanged.
C2_UpdateTickMonotonic ==
    ReceivePassed => ~TickLt(server_update_tick, pre.server_update_tick)

\* C3: once an update message with tick t that mentions an entity in CHANGES
\* or REMOVALS has been applied, the entity's confirm history reports
\* get(t) = TRUE, also when a mutate message had already advanced the
\* entity's last confirmed tick beyond t.
C3_UpdateConfirmsTick ==
    \A i \in DOMAIN entries :
        entries[i].flag \in {"CHANGES", "REMOVALS"} /\ entries[i].ok =>
            /\ entries[i].history # <<>>
            /\ ConfirmHistory_get(entries[i].history[1], entries[i].tick)

\* C4: every client entity in the server-to-client map carries a confirm
\* history, however it entered the map, and the expectation of
\* apply_mutations that the entity it looked up has one never fails.
C4_MappedEntitiesConfirmed ==
    /\ \A server_entity \in DOMAIN entity_map.server_to_client :
           LET client_entity == entity_map.server_to_client[server_entity]
           IN  client_entity \in DOMAIN world => world[client_entity].history # <<>>
    /\ \A i \in DOMAIN calls : calls[i].outcome # "panic"

C6_OutdatedMutationSkipped ==
    \A k \in DOMAIN calls :
        (Confirmed(k) /\ ~Before(k).marker /\ ~Newer(k)) =>
            Skipped(k) /\ Continues(k)

\* An outdated entry is followed, in the same message, by an entry that is
\* applied.
C6_Witness ==
    /\ ReceiveCompleted
    /\ \E k \in DOMAIN calls :
           /\ Confirmed(k) /\ ~Before(k).marker /\ ~Newer(k)
           /\ calls[k].data_size > 0
           /\ k + 1 \in DOMAIN calls
           /\ calls[k + 1].message_tick = calls[k].message_tick
           /\ Confirmed(k + 1) /\ Newer(k + 1)
           /\ calls[k + 1].after # calls[k + 1].before

\* The components an entity has after its data went through consume_or_write:
\* those the marker has functions for are written, the others are left alone.
ConsumedOrWritten(k) ==
    \A fns_id \in DOMAIN Registry :
        LET written == {p \in DOMAIN calls[k].data :
                           p % 2 = 1 /\ calls[k].data[p] = fns_id /\ fns_id \in MarkerFns}
        IN  IF written # {}
            THEN /\ fns_id \in DOMAIN After(k).comps
                 /\ \E p \in written : After(k).comps[fns_id] = calls[k].data[p + 1]
            ELSE /\ fns_id \in DOMAIN After(k).comps <=> fns_id \in DOMAIN Before(k).comps
                 /\ fns_id \in DOMAIN Before(k).comps =>
                        After(k).comps[fns_id] = Before(k).comps[fns_id]

\* C7: for an entity marked as history-consuming, a mutation whose
\* message_tick is not newer than last_tick is processed iff
\* ago = last_tick - message_tick (wrapping) is below 64: bit ago of the
\* history mask is set, get(message_tick) is TRUE, last_tick is unchanged and
\* each component goes through consume_or_write; with ago >= 64 the entity's
\* data is skipped and its history and components are unchanged.
C7_HistoryWindow ==
    \A k \in DOMAIN calls :
        (Confirmed(k) /\ Before(k).marker /\ ~Newer(k)) =>
            LET ago == wrapping_sub(LastTick(k), calls[k].message_tick)
            IN  IF ago.hi = 0 /\ ago.lo < 64
                THEN /\ calls[k].ok
                     /\ After(k).history[1].last_tick = LastTick(k)
                     /\ After(k).history[1].mask = Before(k).history[1].mask \cup {ago.lo}
                     /\ ConfirmHistory_get(After(k).history[1], calls[k].message_tick)
                     /\ ConsumedOrWritten(k)
                     /\ calls[k].after.map = calls[k].before.map
                     /\ calls[k].next_pos = calls[k].pos + calls[k].data_size
                ELSE Skipped(k)

\* In one pass a marked entity takes a mutation 63 ticks old, which sets a
\* bit that was clear, writes one component and consumes the other.
C7_Witness ==
    /\ ReceiveCompleted
    /\ \E k \in DOMAIN calls :
           /\ Confirmed(k) /\ Before(k).marker /\ ~Newer(k)
           /\ wrapping_sub(LastTick(k), calls[k].message_tick) = Tick(0, 63)
           /\ 63 \notin Before(k).history[1].mask
           /\ After(k).comps # Before(k).comps
           /\ \E p \in DOMAIN calls[k].data :
                  p % 2 = 1 /\ calls[k].data[p] \notin MarkerFns

\* C8: a mutation that refers to a server entity absent from the map, as it
\* is once a DESPAWNS entry for it has been applied, is ignored without
\* error: the cursor moves by data_size, no entity is spawned or modified,
\* and the next entity of the same mutate message is processed.
C8_UnknownEntityIgnored ==
    /\ \A k \in DOMAIN calls : ~Known(k) => Skipped(k) /\ Continues(k)
    /\ \A i \in DOMAIN entries :
           (/\ entries[i].flag = "DESPAWNS"
            /\ \A j \in DOMAIN entries :
                   j > i /\ entries[j].server_entity = entries[i].server_entity =>
                       entries[j].flag = "DESPAWNS") =>
               \A k \in DOMAIN calls :
                   calls[k].server_entity = entries[i].server_entity =>
                       ~Known(k) /\ Skipped(k)

\* A mutate message addresses an entity despawned by this pass and then an
\* entity that exists; the second entry is applied.
C8_Witness ==
    /\ ReceiveCompleted
    /\ \E i \in DOMAIN entries, k \in DOMAIN calls :
           /\ entries[i].flag = "DESPAWNS"
           /\ calls[k].server_entity = entries[i].server_entity
           /\ calls[k].server_entity \in DOMAIN pre.entity_map.server_to_client
           /\ ~Known(k)
           /\ calls[k].data_size > 0
           /\ k + 1 \in DOMAIN calls
           /\ calls[k + 1].message_tick = calls[k].message_tick
           /\ Known(k + 1)
           /\ calls[k + 1].after # calls[k + 1].before

\* The mutate_index of each received mutate message, in receive order.
ReceivedIndexes == [i \in 1..Len(ReceivedMutations) |-> ReceivedMutations[i][5]]

\* C9: a receive pass that received k >= 1 mutate messages enqueues exactly
\* one acknowledgment message, on the Updates channel, holding the
\* mutate_index of each of the k messages in receive order, whether they
\* were applied or stay buffered; a pass that received none enqueues none.
C9_OneAckPerPass ==
    ReceivePassed =>
        sent_messages =
            pre.sent_messages \o (IF Len(ReceivedMutations) >= 1
                                  THEN <<<<"Updates", ReceivedIndexes>>>>
                                  ELSE <<>>)

\* Two mutate messages with different indexes are received in one pass; one
\* is applied, the other stays buffered.
C9_Witness ==
    /\ ReceiveCompleted
    /\ Len(ReceivedMutations) = 2
    /\ ReceivedIndexes[1] > ReceivedIndexes[2]
    /\ Len(buffered_mutations) = Len(pre.buffered_mutations) + 1
    /\ calls # <<>>

\* C10: the reset step after a disconnect leaves ServerUpdateTick at its
\* default, the entity map empty in both directions and BufferedMutations
\* empty; no received mutate message is left either, so none of the previous
\* session can be applied in a later one.
C10_ResetClears ==
    last_op = "reset" =>
        /\ server_update_tick = ZeroTick
        /\ entity_map.server_to_client = <<>>
        /\ entity_map.client_to_server = <<>>
        /\ buffered_mutations = <<>>
        /\ received_messages["Mutations"] = <<>>

\* The session that ended had an update tick, mapped entities and a buffered
\* mutate message.
C10_Witness ==
    /\ last_op = "reset"
    /\ pre.server_update_tick # ZeroTick
    /\ pre.entity_map.server_to_client # <<>>
    /\ pre.buffered_mutations # <<>>

\* C11: set_status discards every received message on every channel and
\* every pending sent message exactly when the status changes from Connected
\* to a status that is not Connected; a change from Connected to Connected
\* (another client id) and any change from a status that is not Connected
\* leave both stores as they were.
C11_StatusChangeDiscards ==
    last_op = "set_status" =>
        IF pre.status.kind = "Connected" /\ status.kind # "Connected"
        THEN /\ \A c \in Channels : received_messages[c] = <<>>
             /\ sent_messages = <<>>
        ELSE /\ received_messages = pre.received_messages
             /\ sent_messages = pre.sent_messages

\* The client leaves Connected with messages received on both channels and
\* an acknowledgement still to be sent.
C11_Witness ==
    /\ last_op = "set_status"
    /\ pre.status.kind = "Connected"
    /\ status.kind # "Connected"
    /\ \A c \in Channels : pre.received_messages[c] # <<>>
    /\ pre.sent_messages # <<>>

C14_MappingBindsPrespawned ==
    \A i, j \in DOMAIN entries :
        LET m == entries[i]
            e == entries[j]
        IN  (/\ i < j
             /\ m.flag = "MAPPINGS" /\ m.data[2] \in DOMAIN m.before.world
             /\ e.flag = "CHANGES" /\ e.ok /\ e.server_entity = m.server_entity
             /\ \A k \in i + 1 .. j - 1 : entries[k].flag \in {"REMOVALS", "CHANGES"}) =>
                /\ m.after.world[m.data[2]].replicated
                /\ m.after.map.server_to_client[m.server_entity] = m.data[2]
                /\ m.after.map.client_to_server[m.data[2]] = m.server_entity
                /\ DOMAIN m.after.world = DOMAIN m.before.world
                /\ e.known /\ e.client_entity = m.data[2]
                /\ e.after.world[m.data[2]].replicated
                /\ e.after.map.server_to_client[e.server_entity] = m.data[2]
                /\ e.after.map.client_to_server[m.data[2]] = e.server_entity
                /\ \A k \in 1 .. e.data[2] :
                       (/\ Registry[e.data[2 * k + 1]] = "plain"
                        /\ \A l \in k + 1 .. e.data[2] :
                               e.data[2 * l + 1] # e.data[2 * k + 1]) =>
                           /\ e.data[2 * k + 1] \in DOMAIN e.after.world[m.data[2]].comps
                           /\ e.after.world[m.data[2]].comps[e.data[2 * k + 1]]
                                  = e.data[2 * k + 2]
                /\ Cardinality(DOMAIN e.after.world \ DOMAIN e.before.world) =
                       Cardinality(DOMAIN e.after.map.server_to_client
                                       \ DOMAIN e.before.map.server_to_client)

\* An entity the application spawned, without the marker and without
\* components, is mapped and then written by the CHANGES entry.
C14_Witness ==
    \E i, j \in DOMAIN entries :
        /\ i < j
        /\ entries[i].flag = "MAPPINGS"
        /\ entries[i].data[2] \in DOMAIN entries[i].before.world
        /\ ~entries[i].before.world[entries[i].data[2]].replicated
        /\ ~entries[i].known
        /\ entries[j].flag = "CHANGES" /\ entries[j].ok
        /\ entries[j].server_entity = entries[i].server_entity
        /\ entries[j].client_entity = entries[i].data[2]
        /\ entries[j].before.world[entries[i].data[2]].comps = <<>>
        /\ entries[j].after.world[entries[i].data[2]].comps # <<>>
        /\ entries[j].after.next = entries[i].before.next

C17_MapEntity ==
    LET st == Pass(server_update_tick, entity_map, world, next_entity, history_marker)
        Holds(entity, ignore_mapping, r) ==
            IF ignore_mapping
            THEN r.entity = entity /\ r.st = st
            ELSE IF entity \in DOMAIN entity_map.server_to_client
                 THEN r.entity = entity_map.server_to_client[entity] /\ r.st = st
                 ELSE /\ r.entity \notin DOMAIN world
                      /\ DOMAIN r.st.world = DOMAIN world \cup {r.entity}
                      /\ r.st.world[r.entity].replicated
                      /\ r.st.map.server_to_client =
                             Put(entity_map.server_to_client, entity, r.entity)
                      /\ r.st.map.client_to_server =
                             Put(entity_map.client_to_server, r.entity, entity)
                      /\ map_entity(r.st, FALSE, entity) = r
    IN  /\ \A entity \in 1 .. MaxEntities, ignore_mapping \in BOOLEAN :
               Holds(entity, ignore_mapping, map_entity(st, ignore_mapping, entity))
        /\ \A i \in DOMAIN entries :
               entries[i].flag = "CHANGES" /\ entries[i].ok =>
                   \A k \in 1 .. entries[i].data[2] :
                       LET e == entries[i]
                           id == e.data[2 * k + 1]
                           target == e.data[2 * k + 2]
                           s2c == e.after.map.server_to_client
                       IN  Registry[id] = "entity" =>
                               /\ target \in DOMAIN s2c
                               /\ e.after.world[e.client_entity].comps[id] = s2c[target]
                               /\ IF target \in DOMAIN e.before.map.server_to_client
                                  THEN s2c[target] = e.before.map.server_to_client[target]
                                  ELSE target # e.server_entity =>
                                           /\ s2c[target] \notin DOMAIN e.before.world
                                           /\ e.after.world[s2c[target]].replicated
                                           /\ e.after.map.client_to_server[s2c[target]]
                                                  = target

\* A written component referred to a server entity that was not in the map,
\* and a later one to a server entity that was.
C17_Witness ==
    \E i, j \in DOMAIN entries :
        /\ i < j
        /\ entries[i].flag = "CHANGES" /\ entries[i].ok
        /\ entries[j].flag = "CHANGES" /\ entries[j].ok
        /\ Registry[entries[i].data[3]] = "entity"
        /\ Registry[entries[j].data[3]] = "entity"
        /\ entries[i].data[4] \notin DOMAIN entries[i].before.map.server_to_client
        /\ entries[j].data[4] \in DOMAIN entries[j].before.map.server_to_client
        /\ entries[j].data[4] = entries[i].data[4]
        /\ entries[j].after.world[entries[j].client_entity].comps[entries[j].data[3]]
               = entries[i].after.world[entries[i].client_entity].comps[entries[i].data[3]]

\* C18: applying the same update message twice in a row leaves the client in
\* the state one application leaves: the same client entities with the same
\* component values and confirm histories, the same entity map and the same
\* update tick. Stated of every receive pass that was handed one update
\* message twice and nothing else, with no mutate message waiting.
C18_UpdateIdempotent ==
    LET Same(once) ==
            Ok(once) => /\ world = once.world
                        /\ entity_map = once.map
                        /\ server_update_tick = once.tick
    IN  (/\ last_op = "receive_replication"
         /\ ~panicked
         /\ Len(pre.received_messages["Updates"]) = 2
         /\ pre.received_messages["Updates"][1] = pre.received_messages["Updates"][2]
         /\ pre.received_messages["Mutations"] = <<>>
         /\ pre.buffered_mutations = <<>>) =>
            Same(apply_update_message(
                     Pass(pre.server_update_tick, pre.entity_map, pre.world,
                          pre.next_entity, history_marker),
                     pre.received_messages["Updates"][1]))

\* C19: the entity wire encoding round-trips. Whenever the buffer has
\* written an entity, decoding the message from where it was written yields
\* the same index and generation, for every index of 32 bits; the low bit
\* of the first byte tells whether the generation is non-zero, and an entity
\* of generation 0 takes one varint, any other two.
C19_EntityRoundTrip ==
    buffer.written.entity # <<>> =>
        LET w == buffer.written.entity[1]
            Holds(d) ==
                /\ ~d.err
                /\ d.entity = w.entity
                /\ buffer.message[w.from + 1] % 2
                       = (IF w.entity.generation = U32(0, 0) THEN 0 ELSE 1)
                /\ Cardinality({i \in w.from + 1 .. d.next : buffer.message[i] < 128})
                       = (IF w.entity.generation = U32(0, 0) THEN 1 ELSE 2)
                /\ buffer.written.op = "write_despawn" => d.next = buffer.position
        IN  Holds(deserialize_entity(buffer.message, w.from))

\* An entity whose index has its highest bit set and whose generation is not
\* zero has been written, after an entity of generation 0.
C19_Witness ==
    /\ buffer.written.entity # <<>>
    /\ buffer.written.entity[1].entity.index.hi >= Half \div 2
    /\ buffer.written.entity[1].entity.generation # U32(0, 0)
    /\ buffer.written.op = "write_despawn"
    /\ buffer.written.entity[1].from > 6
    /\ buffer.message[7] < 128

\* C20: every counter of the buffer writer fails with SizeLimit instead of
\* wrapping or overflowing. A change or removal written when the entity
\* already holds 255 of them returns SizeLimit, and so does an element
\* (a despawn, or entity data that is not empty) written into an array that
\* already holds 65535; no counter is ever smaller than the number of
\* elements written, and no count slot is written with a smaller value.
C20_CountersFailWithSizeLimit ==
    /\ (/\ buffer.written.op \in {"write_change", "write_removal"}
        /\ buffer.written.entity_data_len = U8Max) => buffer.result = "SizeLimit"
    /\ (/\ buffer.written.op = "write_despawn"
        /\ buffer.written.array_len = U16Max) => buffer.result = "SizeLimit"
    /\ (/\ buffer.written.op = "end_entity_data"
        /\ buffer.written.entity_data_len # 0
        /\ buffer.written.array_len = U16Max) => buffer.result = "SizeLimit"
    /\ buffer.result = "Ok" /\ buffer.phase = "entity" =>
           buffer.entity_data_len = buffer.written.data
    /\ buffer.result = "Ok" /\ buffer.phase # "message" =>
           buffer.array_len = buffer.written.elements
    /\ buffer.written.slot # <<>> =>
           buffer.written.slot[1].value >= buffer.written.slot[1].written

----------------------------------------------------------------------------
(* Claims about the Confirmed component.                                   *)

\* The last call of set, if any, moved the component to a tick 64 or more
\* ticks newer than its last_tick.
AdvancedFar ==
    /\ confirmed.set # <<>>
    /\ ~confirmed.panic
    /\ confirmed.set[1].new
    /\ ~BelowBits(wrapping_sub(confirmed.set[1].tick, confirmed.set[1].before.last_tick))

\* The tick k ticks before tick.
TicksBefore(tick, k) == wrapping_sub(tick, Tick(0, k))

\* C21: advancing the confirmed-tick history to a tick t that is 64 or more
\* ticks newer than last_tick (whatever the distance) resets the mask so
\* that only t is marked: afterwards get(t) is true and get(u) is false for
\* every u with 0 < t - u < 64.
C21_FarAdvanceResetsMask ==
    AdvancedFar =>
        /\ Confirmed_get(confirmed.component, confirmed.set[1].tick)
        /\ \A k \in 1 .. HistoryBits - 1 :
               ~Confirmed_get(confirmed.component, TicksBefore(confirmed.set[1].tick, k))

\* Ticks around the window of the component: up to 70 ticks older than its
\* last_tick, up to 3 newer, and every tick a call may name.
Probes ==
    ConfirmedTicks
        \cup {TicksBefore(confirmed.component.last_tick, k) : k \in 0 .. HistoryBits + 6}
        \cup {wrapping_sub(confirmed.component.last_tick, TicksBefore(ZeroTick, k)) :
                  k \in 1 .. 3}

\* C22: get(t) is false for every tick newer than last_tick; for a tick
\* less than 64 ticks older it is true exactly when t has been confirmed by
\* new or set; for a tick 64 or more ticks older it is true. A fresh
\* component confirms exactly its own tick inside its window.
C22_GetReadsConfirmedTicks ==
    ~confirmed.panic =>
        \A t \in Probes :
            LET last_tick == confirmed.component.last_tick
                got == Confirmed_get(confirmed.component, t)
            IN  /\ TickGt(t, last_tick) => ~got
                /\ (/\ ~TickGt(t, last_tick)
                    /\ BelowBits(wrapping_sub(last_tick, t))) =>
                       (got <=> t \in confirmed.ticks)
                /\ (/\ ~TickGt(t, last_tick)
                    /\ ~BelowBits(wrapping_sub(last_tick, t))) => got
                /\ (/\ confirmed.calls = 0
                    /\ BelowBits(wrapping_sub(last_tick, t))) =>
                       (got <=> t = last_tick)

----------------------------------------------------------------------------
(* Claims about the cache of replicated archetypes.                        *)

\* The rules, in priority order, that match the archetype and list the
\* component.
Claiming(r, archetype, component_id) ==
    {k \in 1 .. Len(r.rules) :
         /\ matches(r.rules[k], archetype)
         /\ \E i \in 1 .. Len(r.rules[k].components) :
                r.rules[k].components[i][1] = component_id}

\* The FnsId the rule gives the component.
FnsOf(rule, component_id) ==
    rule.components[CHOOSE i \in 1 .. Len(rule.components) :
                        rule.components[i][1] = component_id][2]

\* The first of a non-empty set of rule positions.
FirstOf(positions) == CHOOSE k \in positions : \A h \in positions : k <= h

\* C23: in every cached replicated archetype each component id appears at
\* most once, with the FnsId (and storage type) given by the first rule in
\* priority order that matches the archetype and lists the component; a
\* component no matching rule lists is absent, so a later matching rule
\* still contributes the components not claimed before it.
C23_FirstMatchingRuleClaims ==
    LET r == replicated_archetypes
    IN  /\ \A k \in 1 .. Len(r.rules) - 1 : r.rules[k].priority >= r.rules[k + 1].priority
        /\ \A a \in 1 .. Len(r.archetypes) :
               LET components == r.archetypes[a].components
                   archetype == r.world[r.archetypes[a].id + 1]
               IN  /\ \A i, j \in 1 .. Len(components) :
                          components[i].component_id = components[j].component_id => i = j
                   /\ \A component_id \in {ComponentA, ComponentB, ComponentC} :
                          IF Claiming(r, archetype, component_id) = {}
                          THEN \A i \in 1 .. Len(components) :
                                   components[i].component_id # component_id
                          ELSE \E i \in 1 .. Len(components) :
                                   components[i] =
                                       [component_id |-> component_id,
                                        storage_type |-> get_storage_type(component_id),
                                        fns_id |-> FnsOf(r.rules[FirstOf(Claiming(r, archetype,
                                                                                 component_id))],
                                                         component_id)]

\* A cached archetype has a component that two matching rules list with
\* different FnsIds, and another component that only the later of the two
\* lists.
C23_Witness ==
    LET r == replicated_archetypes
    IN  \E a \in 1 .. Len(r.archetypes) :
            LET components == r.archetypes[a].components
                archetype == r.world[r.archetypes[a].id + 1]
            IN  \E first, later \in Claiming(r, archetype, ComponentA) :
                    /\ first < later
                    /\ FnsOf(r.rules[first], ComponentA) # FnsOf(r.rules[later], ComponentA)
                    /\ FirstOf(Claiming(r, archetype, ComponentB)) = later
                    /\ Len(components) = 2
                    /\ components[1].fns_id = FnsOf(r.rules[first], ComponentA)
                    /\ components[2].fns_id = FnsOf(r.rules[later], ComponentB)

\* C24: the cache holds exactly the archetypes that existed at the last
\* update and contain the replication marker, each once; an update keeps
\* every entry it found, in place, and goes through the archetypes created
\* since the previous update only.
C24_CacheGrowsWithNewArchetypes ==
    LET r == replicated_archetypes
    IN  /\ {r.archetypes[a].id : a \in 1 .. Len(r.archetypes)}
               = {id \in 0 .. r.updated - 1 : r.marker_id \in r.world[id + 1]}
        /\ \A a, b \in 1 .. Len(r.archetypes) :
               r.archetypes[a].id = r.archetypes[b].id => a = b
        /\ r.op = "update" =>
               /\ Len(r.archetypes) >= Len(r.before.archetypes)
               /\ SubSeq(r.archetypes, 1, Len(r.before.archetypes)) = r.before.archetypes
               /\ r.scanned = {id \in 0 .. Len(r.world) - 1 : id >= r.before.updated}
               /\ r.updated = Len(r.world)
        /\ r.op = "create" =>
               /\ r.archetypes = r.before.archetypes
               /\ r.updated = r.before.updated

\* An update that found cached archetypes has gone through newly created
\* archetypes with and without the marker.
C24_Witness ==
    LET r == replicated_archetypes
    IN  /\ r.op = "update"
        /\ r.before.archetypes # <<>>
        /\ Len(r.archetypes) > Len(r.before.archetypes)
        /\ \E id \in r.scanned : r.marker_id \notin r.world[id + 1]
        /\ \E id \in 0 .. r.before.updated - 1 : r.marker_id \notin r.world[id + 1]

----------------------------------------------------------------------------
(* Claims about the RepliconServer.                                        *)

\* C25: every message vector kept in client_buffer for reuse is empty, so a
\* client that add_client has just added has no received messages on any
\* channel, whatever calls of add_client, remove_client, insert_received,
\* receive and set_running came before.
C25_ReusedVectorsAreEmpty ==
    /\ \A i \in 1 .. Len(server.client_buffer) : server.client_buffer[i] = <<>>
    /\ (server.op = "add_client" /\ ~server.panic) =>
           \A channel_id \in 1 .. Len(server.received_messages) :
               server.received_messages[channel_id][server.peer_id] = <<>>

----------------------------------------------------------------------------
(* Claims about the buffer of mutate messages and the update tick.         *)

\* No entry of the list is older than an entry behind it.
Descending(list) ==
    \A i, j \in 1 .. Len(list) :
        i < j => ~TickLt(list[i].message_tick, list[j].message_tick)

\* kept is list without some of its entries, the others in their order.
Retained(list, kept) ==
    kept = SelectSeq(list, LAMBDA mutate : mutate \in {kept[k] : k \in DOMAIN kept})

\* C26: BufferedMutations is ordered by message_tick in descending order
\* after any sequence of insertions and drain passes: so is the list the
\* insertions of a pass leave to its drain, which holds the buffered and
\* the received messages and nothing else; the drain removes the applied
\* entries only and keeps the others in their order.
C26_BufferStaysDescending ==
    /\ Descending(buffered_mutations)
    /\ ReceivePassed =>
           /\ Descending(DrainInput)
           /\ Len(DrainInput) <= Len(pre.buffered_mutations) + Len(ReceivedMutations)
           /\ \A i \in DOMAIN pre.buffered_mutations :
                  \E j \in DOMAIN DrainInput : DrainInput[j] = pre.buffered_mutations[i]
           /\ Retained(DrainInput, buffered_mutations)
           /\ ~panicked =>
                  /\ Len(DrainInput) = Len(pre.buffered_mutations) + Len(ReceivedMutations)
                  /\ \A i \in DOMAIN DrainInput :
                         (\E j \in DOMAIN buffered_mutations :
                              buffered_mutations[j] = DrainInput[i])
                             <=> ~(\E k \in DOMAIN calls :
                                       calls[k].message_tick = DrainInput[i].message_tick)

\* A pass received an older mutate message before a newer one, and its
\* drain applied the older and kept the newer.
C26_Witness ==
    /\ ReceiveCompleted
    /\ Len(ReceivedMutations) = 2
    /\ TickLt(Tick(ReceivedMutations[1][3], ReceivedMutations[1][4]),
              Tick(ReceivedMutations[2][3], ReceivedMutations[2][4]))
    /\ Len(DrainInput) = 2
    /\ buffered_mutations = <<DrainInput[1]>>
    /\ calls # <<>>
    /\ calls[1].message_tick = DrainInput[2].message_tick

ReceivedUpdates == pre.received_messages["Updates"]

\* The tick an update message carries.
TickOf(message) == Tick(message[2], message[3])

\* ServerUpdateTick once the update messages of the pass have been applied.
TickAfterUpdates ==
    IF ReceivedUpdates = <<>>
    THEN pre.server_update_tick
    ELSE TickOf(ReceivedUpdates[Len(ReceivedUpdates)])

\* C27: receiving, buffering and applying mutate messages never changes
\* ServerUpdateTick. Within a session only a receive pass that applies an
\* update message changes it, to the tick of an update message; a pass
\* that runs to its end leaves the tick of its last update message, and its
\* drain keeps exactly the messages whose update tick is newer than that.
C27_OnlyUpdatesAssignTick ==
    /\ server_update_tick # pre.server_update_tick =>
           /\ ReceivePassed
           /\ \E i \in DOMAIN ReceivedUpdates : server_update_tick = TickOf(ReceivedUpdates[i])
    /\ ReceiveCompleted =>
           /\ server_update_tick = TickAfterUpdates
           /\ buffered_mutations
                  = SelectSeq(DrainInput,
                              LAMBDA mutate : TickGt(mutate.update_tick, TickAfterUpdates))

\* A pass received an update message and a mutate message that refers to
\* its tick, newer than the tick the pass found, and applied both, after an
\* earlier pass had buffered a mutate message.
C27_Witness ==
    /\ ReceiveCompleted
    /\ ReceivedUpdates # <<>>
    /\ TickGt(TickAfterUpdates, pre.server_update_tick)
    /\ \E i \in DOMAIN ReceivedMutations :
           /\ Tick(ReceivedMutations[i][1], ReceivedMutations[i][2]) = TickAfterUpdates
           /\ \E k \in DOMAIN calls :
                  calls[k].message_tick
                      = Tick(ReceivedMutations[i][3], ReceivedMutations[i][4])
    /\ pre.buffered_mutations # <<>>

----------------------------------------------------------------------------
(* Claims about the arrays of an update message.                           *)

\* A later flag than the i-th is set.
FlagFollows(flags, i) == \E j \in DOMAIN FlagNames : j > i /\ HasFlag(flags, j)

\* The arrays of an update message and their framing, in the order of the
\* flags: all sized but the last.
ArraysOf(message) ==
    Concat([i \in DOMAIN FlagNames |->
               IF HasFlag(message[1], i)
               THEN <<[flag |-> FlagNames[i],
                       kind |-> IF FlagFollows(message[1], i) THEN "Sized" ELSE "Dynamic"]>>
               ELSE <<>>])

\* The arrays the update messages of the pass were read as.
ArraysRead ==
    LET read == SelectSeq(arrays, LAMBDA a : a.flag # "MUTATIONS")
    IN  [i \in 1 .. Len(read) |-> [flag |-> read[i].flag, kind |-> read[i].kind]]

\* What the entries applied for a flag consumed, one after the other.
DataOf(flag) ==
    LET applied == SelectSeq(entries, LAMBDA e : e.flag = flag)
    IN  Concat([i \in 1 .. Len(applied) |-> applied[i].data])

EntriesOf(flag) == Len(SelectSeq(entries, LAMBDA e : e.flag = flag))

\* The array of the i-th flag as the entries applied for it lay in the
\* message: behind their count unless the flag is the last one set.
Framed(flags, i) ==
    IF ~HasFlag(flags, i)
    THEN <<>>
    ELSE IF FlagFollows(flags, i)
         THEN <<EntriesOf(FlagNames[i])>> \o DataOf(FlagNames[i])
         ELSE DataOf(FlagNames[i])

C29_MappingToMissingEntityDropped ==
    \A i \in DOMAIN entries :
        (/\ entries[i].flag = "MAPPINGS"
         /\ Len(entries[i].data) >= 2
         /\ entries[i].data[2] \notin DOMAIN entries[i].before.world) =>
            /\ entries[i].ok
            /\ Len(entries[i].data) = 2
            /\ entries[i].after = entries[i].before
            /\ (/\ Len(ReceivedUpdates) = 1
                /\ HasFlag(ReceivedUpdates[1][1], 4)
                /\ \A j \in DOMAIN entries : j > i => entries[j].ok) =>
                   \E j \in DOMAIN entries :
                       /\ j > i
                       /\ entries[j].flag = "CHANGES"
                       /\ entries[j].data
                              = SubSeq(ReceivedUpdates[1],
                                       Len(ReceivedUpdates[1]) - Len(entries[j].data) + 1,
                                       Len(ReceivedUpdates[1]))

\* A mapping to an entity the client does not have was dropped, and the
\* CHANGES entry behind it spawned an entity for the server entity.
C29_Witness ==
    /\ ReceiveCompleted
    /\ Len(ReceivedUpdates) = 1
    /\ \E i, j \in DOMAIN entries :
           /\ i < j
           /\ entries[i].flag = "MAPPINGS"
           /\ entries[i].data[2] \notin DOMAIN entries[i].before.world
           /\ entries[j].flag = "CHANGES"
           /\ entries[j].server_entity = entries[i].server_entity
           /\ ~entries[j].known
           /\ entries[j].after.next = entries[j].before.next + 1

----------------------------------------------------------------------------
(* Claims about decode errors in the drain.                                *)

\* The pass state once the update messages of the pass have been applied.
UpdatesApplied ==
    apply_update_messages(
        Pass(pre.server_update_tick, pre.entity_map, pre.world, pre.next_entity,
             history_marker),
        ReceivedUpdates, 1)

\* The pass reached the drain of BufferedMutations.
DrainRan ==
    /\ ReceivePassed
    /\ Ok(UpdatesApplied)
    /\ ~buffer_mutate_messages(pre.buffered_mutations, ReceivedMutations, 1, <<>>).err

\* The payload ends behind the entity of its first mutation: reading the
\* size of the mutation's data fails.
Truncated(mutate) == Len(mutate.message) = 1

Sound(mutate) == Due(mutate) /\ ~Truncated(mutate)

\* C30: when the drain meets an eligible buffered mutate message that fails
\* to decode, only that message ends: every other eligible message of the
\* buffer is applied in the same pass, in buffer order, the messages that
\* are not yet eligible stay buffered, the failing message is gone from the
\* buffer, and the pass returns an error.
C30_DecodeErrorEndsOneMessage ==
    (DrainRan /\ \E i \in DOMAIN DrainInput :
                     Due(DrainInput[i]) /\ Truncated(DrainInput[i])) =>
        /\ panicked
        /\ buffered_mutations = SelectSeq(DrainInput, Waits)
        /\ CallsMade = CallsOf(SelectSeq(DrainInput, Sound))

\* The drain found a waiting message, then a truncated eligible one, then a
\* sound eligible one: it kept the first, dropped the second and applied the
\* third.
C30_Witness ==
    /\ DrainRan
    /\ Len(DrainInput) = 3
    /\ Waits(DrainInput[1])
    /\ Due(DrainInput[2]) /\ Truncated(DrainInput[2])
    /\ Sound(DrainInput[3])
    /\ panicked
    /\ buffered_mutations = <<DrainInput[1]>>
    /\ Len(calls) = 1
    /\ calls[1].message_tick = DrainInput[3].message_tick

----------------------------------------------------------------------------
(* Claims about entity data and arrays in the buffer writer.               *)

\* end_entity_data has just returned without an error.
EntityDataEnded == buffer.written.op = "end_entity_data" /\ buffer.result = "Ok"

\* C31: entity data without a change or removal leaves the message and the
\* position as start_entity_data found them and does not count in the
\* array; entity data with n >= 1 changes and removals holds the entity
\* once, followed by a count slot written with n, and counts as one element
\* of the array.
C31_EntityDataCounted ==
    EntityDataEnded =>
        IF buffer.written.data = 0
        THEN /\ buffer.message = buffer.written.start.message
             /\ buffer.position = buffer.written.start.position
             /\ buffer.array_len = buffer.written.array_len
        ELSE /\ buffer.written.emitted = 1
             /\ buffer.written.slot = <<[value |-> buffer.written.data,
                                         written |-> buffer.written.data]>>
             /\ buffer.message[buffer.entity_data_pos + 1] = buffer.written.data
             /\ buffer.array_len = buffer.written.array_len + 1

\* trim_empty_arrays has run, called by send_to or directly.
Trimmed == buffer.written.trimmed # <<>>

\* The arrays of the maximal run of empty arrays at the end of the message.
TrailingEmpty ==
    {i \in DOMAIN buffer.written.arrays :
         \A j \in i .. Len(buffer.written.arrays) : buffer.written.arrays[j].len = 0}

\* The two bytes of the length slot of the i-th array.
SlotOf(i) == {buffer.written.arrays[i].pos + 1, buffer.written.arrays[i].pos + 2}

\* C32: trimming removes exactly the length slots of the maximal run of
\* empty arrays at the end of the message, two bytes each, and nothing else:
\* every array before that run keeps its slot, an empty one with the length
\* 0, and a message of empty arrays only is as long as it was before its
\* first array.
C32_TrimsTrailingEmptyArrays ==
    Trimmed =>
        /\ buffer.message
               = SubSeq(buffer.written.trimmed[1], 1,
                        Len(buffer.written.trimmed[1]) - (2 * Cardinality(TrailingEmpty)))
        /\ \A k \in Len(buffer.message) + 1 .. Len(buffer.written.trimmed[1]) :
               \E i \in TrailingEmpty : k \in SlotOf(i)
        /\ \A i \in DOMAIN buffer.written.arrays \ TrailingEmpty :
               /\ SlotOf(i) \subseteq DOMAIN buffer.message
               /\ buffer.message[buffer.written.arrays[i].pos + 1]
                      = buffer.written.arrays[i].len % 256
               /\ buffer.message[buffer.written.arrays[i].pos + 2]
                      = buffer.written.arrays[i].len \div 256
        /\ (buffer.written.arrays # <<>> /\ TrailingEmpty = DOMAIN buffer.written.arrays) =>
               Len(buffer.message) = buffer.written.arrays[1].begin

\* send_to trimmed and sent a message of an empty array, an array with
\* data and another empty array: the first kept its slot, the last lost it.
C32_Witness ==
    /\ Trimmed
    /\ buffer.written.op = "send_to"
    /\ buffer.written.sent = <<buffer.message>>
    /\ Len(buffer.written.arrays) = 3
    /\ buffer.written.arrays[1].len = 0
    /\ buffer.written.arrays[2].len # 0
    /\ buffer.written.arrays[3].len = 0
    /\ Len(buffer.message) = Len(buffer.written.trimmed[1]) - 2

----------------------------------------------------------------------------
(* Claims about single calls of Confirmed::set.                            *)

\* The last call of set, if any: its tick, the component it found, and how
\* far the tick is from the last_tick it found.
SetTick == confirmed.set[1].tick

SetBefore == confirmed.set[1].before

SetAgo == wrapping_sub(SetBefore.last_tick, SetTick)

SetAhead == wrapping_sub(SetTick, SetBefore.last_tick)

\* set was called with a tick not newer than last_tick and less than 64
\* ticks older.
Retroactive ==
    /\ confirmed.set # <<>>
    /\ ~TickGt(SetTick, SetBefore.last_tick)
    /\ BelowBits(SetAgo)

\* C33: confirming a tick t with t <= last_tick and last_tick - t < 64
\* makes get(t) true, leaves last_tick as it was and the confirmed status of
\* every other tick as it was, and returns that the tick was not new.
C33_RetroactiveSetFrame ==
    Retroactive =>
        /\ ~confirmed.panic
        /\ ~confirmed.set[1].new
        /\ confirmed.component.last_tick = SetBefore.last_tick
        /\ Confirmed_get(confirmed.component, SetTick)
        /\ confirmed.component.mask = SetBefore.mask \cup {SetAgo.lo}
        /\ \A u \in Probes \ {SetTick} :
               Confirmed_get(confirmed.component, u) = Confirmed_get(SetBefore, u)

\* A tick older than last_tick that was not confirmed has been confirmed,
\* next to another older tick confirmed before.
C33_Witness ==
    /\ Retroactive
    /\ SetAgo.lo > 0
    /\ ~Confirmed_get(SetBefore, SetTick)
    /\ Cardinality(confirmed.component.mask) >= 3

\* set was called with a tick newer than last_tick by less than 64 ticks.
Advanced ==
    /\ confirmed.set # <<>>
    /\ TickGt(SetTick, SetBefore.last_tick)
    /\ BelowBits(SetAhead)

\* C34: advancing to a tick t that is d < 64 ticks newer than last_tick
\* sets last_tick to t, makes get(t) true and returns that the tick is new;
\* every other tick less than 64 ticks older than t keeps its confirmed
\* status, the ticks between the old last_tick and t being unconfirmed.
C34_AdvanceShiftsWindow ==
    Advanced =>
        /\ ~confirmed.panic
        /\ confirmed.set[1].new
        /\ confirmed.component.last_tick = SetTick
        /\ Confirmed_get(confirmed.component, SetTick)
        /\ \A k \in 1 .. HistoryBits - 1 :
               /\ Confirmed_get(confirmed.component, TicksBefore(SetTick, k))
                      = Confirmed_get(SetBefore, TicksBefore(SetTick, k))
               /\ k < SetAhead.lo => ~Confirmed_get(confirmed.component, TicksBefore(SetTick, k))

\* The component advanced by two ticks or more and still confirms the tick
\* it came from.
C34_Witness ==
    /\ Advanced
    /\ SetAhead.lo >= 2
    /\ Confirmed_get(confirmed.component, SetBefore.last_tick)
    /\ ~Confirmed_get(confirmed.component, TicksBefore(SetTick, 1))

\* set was called with a tick just behind the wraparound on a component
\* whose last_tick is just before it.
Wrapped ==
    /\ confirmed.set # <<>>
    /\ SetBefore.last_tick.hi = Half - 1
    /\ SetTick.hi = 0

\* C35: across the wraparound a tick just behind it counts as newer than a
\* last_tick just before it: set returns new and moves last_tick, the mask
\* is shifted by the wrapping difference, and every tick confirmed before
\* that is still less than 64 ticks older than the new last_tick stays
\* confirmed.
C35_WorksAcrossWraparound ==
    Wrapped =>
        /\ ~confirmed.panic
        /\ confirmed.set[1].new
        /\ confirmed.component.last_tick = SetTick
        /\ Confirmed_get(confirmed.component, SetTick)
        /\ BelowBits(SetAhead) =>
               confirmed.component.mask
                   = {0} \cup {i + SetAhead.lo : i \in {j \in SetBefore.mask :
                                                           j + SetAhead.lo < HistoryBits}}
        /\ \A k \in SetBefore.mask :
               BelowBits(wrapping_sub(SetTick, TicksBefore(SetBefore.last_tick, k))) =>
                   Confirmed_get(confirmed.component, TicksBefore(SetBefore.last_tick, k))

\* A component that confirmed the two last ticks before the wraparound has
\* moved behind it and still confirms both.
C35_Witness ==
    /\ Wrapped
    /\ SetBefore.last_tick = MaxTick
    /\ SetBefore.mask = {0, 1}
    /\ SetTick = Tick(0, 1)
    /\ confirmed.component.mask = {0, 2, 3}

\* set was called with a tick 64 or more ticks older than last_tick.
Stale ==
    /\ confirmed.set # <<>>
    /\ ~TickGt(SetTick, SetBefore.last_tick)
    /\ ~BelowBits(SetAgo)

\* C39: set with a tick 64 or more ticks older than last_tick does not
\* fail and leaves the mask and last_tick as they were, so that no tick of
\* the window becomes confirmed.
C39_StaleSetIgnored ==
    Stale =>
        /\ ~confirmed.panic
        /\ confirmed.component = SetBefore

\* C40: the last tick of a component is always confirmed, bit 0 of the mask
\* being set, and no call of set moves last_tick to an older tick.
C40_LastTickConfirmed ==
    /\ 0 \in confirmed.component.mask
    /\ Confirmed_get(confirmed.component, confirmed.component.last_tick)
    /\ confirmed.set # <<>> =>
           /\ ~TickLt(confirmed.component.last_tick, SetBefore.last_tick)
           /\ confirmed.component.last_tick # SetBefore.last_tick =>
                  (confirmed.set[1].new /\ confirmed.component.last_tick = SetTick)

\* After three calls, the last one moving last_tick by one tick, the mask
\* holds the shifted bits and bit 0.
C40_Witness ==
    /\ confirmed.calls = 3
    /\ ~confirmed.panic
    /\ confirmed.set[1].new
    /\ SetAhead = Tick(0, 1)
    /\ 0 \in SetBefore.mask
    /\ {0, 1} \subseteq confirmed.component.mask

----------------------------------------------------------------------------
(* Claims about the RepliconClient.                                        *)

WasConnected == pre.status.kind = "Connected"

\* The channel holds what it held before and the message inserted last.
Appended(c) ==
    /\ received_messages[c] # <<>>
    /\ SubSeq(received_messages[c], 1, Len(received_messages[c]) - 1)
           = pre.received_messages[c]
    /\ \A d \in Channels \ {c} : received_messages[d] = pre.received_messages[d]

\* The call handed out what the channel held, in its order, and left the
\* channel empty.
HandedOut(c) ==
    /\ returned = pre.received_messages[c]
    /\ received_messages[c] = <<>>
    /\ \A d \in Channels \ {c} : received_messages[d] = pre.received_messages[d]

\* C37: while the status is not Connected every receive channel and the
\* list of sent messages are empty: send and insert_received change nothing
\* then, and leaving Connected clears both. While connected insert_received
\* appends to its channel and receive hands out the messages of its
\* channel once, in the order of their insertion.
C37_DisconnectedClientHoldsNothing ==
    /\ ~is_connected =>
           /\ \A c \in Channels : received_messages[c] = <<>>
           /\ sent_messages = <<>>
    /\ (last_op \in {"send", "insert_received"} /\ ~WasConnected) =>
           /\ received_messages = pre.received_messages
           /\ sent_messages = pre.sent_messages
    /\ (last_op = "insert_received" /\ WasConnected) =>
           /\ \E c \in Channels : Appended(c)
           /\ sent_messages = pre.sent_messages
    /\ last_op = "receive" =>
           /\ \E c \in Channels : HandedOut(c)
           /\ sent_messages = pre.sent_messages

\* The connected client handed out two different messages of a channel, the
\* one inserted first coming first, while messages were waiting to be sent.
C37_Witness ==
    /\ last_op = "receive"
    /\ WasConnected
    /\ returned = <<<<1>>, <<2>>>>
    /\ sent_messages # <<>>

----------------------------------------------------------------------------
(* Claims about the messages of the RepliconServer.                        *)

\* What the peer of the last call had waiting on the channel of the call.
WaitingBefore ==
    LET channel_messages == server.before.received_messages[server.channel_id + 1]
    IN  IF server.peer_id \in DOMAIN channel_messages
        THEN channel_messages[server.peer_id] ELSE <<>>

\* C36: receive returns the messages that insert_received inserted for a
\* peer and channel in the order of their insertion: a call that finds
\* messages waiting returns the one inserted first and leaves the others.
C36_ReceiveInInsertionOrder ==
    (server.op = "receive" /\ ~server.panic /\ WaitingBefore # <<>>) =>
        /\ server.returned = <<"Some", Head(WaitingBefore)>>
        /\ server.received_messages[server.channel_id + 1][server.peer_id]
               = Tail(WaitingBefore)

\* The messages of the list that are not addressed to the peer, in order.
NotAddressedTo(channel_messages, peer_id) ==
    SelectSeq(channel_messages, LAMBDA sent : sent[1] # peer_id)

\* C38: remove_client(p) removes the pending sent messages addressed to p
\* and the receive storage of p on every channel, and leaves the pending
\* sent messages and the received messages of every other peer as they
\* were, in the same order.
C38_RemoveClientFrame ==
    (server.op = "remove_client" /\ ~server.panic) =>
        /\ \A c \in DOMAIN server.sent_messages :
               server.sent_messages[c]
                   = NotAddressedTo(server.before.sent_messages[c], server.peer_id)
        /\ \A c \in DOMAIN server.received_messages :
               /\ DOMAIN server.received_messages[c]
                      = DOMAIN server.before.received_messages[c] \ {server.peer_id}
               /\ \A other \in DOMAIN server.received_messages[c] :
                      server.received_messages[c][other]
                          = server.before.received_messages[c][other]

\* A client was removed that had received messages waiting and sent
\* messages pending between those of another peer, which has two different
\* messages pending and two waiting.
C38_Witness ==
    /\ server.op = "remove_client"
    /\ ~server.panic
    /\ server.before.received_messages[1][server.peer_id] # <<>>
    /\ \E other \in PeerIds \ {server.peer_id} :
           /\ other \in DOMAIN server.received_messages[1]
           /\ Len(server.received_messages[1][other]) >= 2
           /\ \E i, j, k \in DOMAIN server.before.sent_messages[1] :
                  /\ i < j /\ j < k
                  /\ server.before.sent_messages[1][i] = <<other, 7>>
                  /\ server.before.sent_messages[1][j][1] = server.peer_id
                  /\ server.before.sent_messages[1][k] = <<other, 8>>

============================================================================
